---- MODULE Spec2Model ----
(***************************************************************************)
(* Multi-provider acquisition engine of Spotify_Downloader:                *)
(*   MultiSourceDownloader (fallback orchestrator),                        *)
(*   DownloadTracker       (persisted deduplication ledger),               *)
(*   Downloader            (YouTube fetch and completeness validator).     *)
(*                                                                         *)
(* Strings are sequences of one-character strings, so that formatting,     *)
(* path construction and suffix extraction are computed as the code        *)
(* computes them.  Python's None is the model value None.                  *)
(***************************************************************************)
EXTENDS Integers, Sequences, FiniteSets, TLC

VARIABLES
    \* ---- MultiSourceDownloader ----
    config,            \* the configuration dictionary given to __init__
    sources,           \* self.sources: the provider names that were initialised
    source_priority,   \* self.source_priority
    last_source,       \* self.last_source
    \* ---- one download request per worker ----
    pc,                \* position of the worker in acquire/download
    req,               \* the track of the request
    idx,               \* index of the for-loop over source_priority
    attempt,           \* loop variable of _download_from_youtube
    result,            \* value returned by download
    returned,          \* what the caller got: [path, provider_id], None, or "raised"
    invoked,           \* provider calls made for the request
    fetched,           \* files produced by successful fetches of the request
    current,           \* whether the ledger was current for the request when issued
    nreq,              \* requests issued so far in the session
    slept,             \* <<attempt, delay>>: the time.sleep calls of the retry loop under way
    \* ---- DownloadTracker ----
    completed_tracks,  \* self.completed_tracks
    tracker_file,      \* content of .download_tracker.json
    ret,               \* record of the last tracker call and its return value
    \* ---- concurrent writers of the tracker file ----
    wpc,               \* position of a writer thread in mark_downloaded/_save_tracker
    wbuf,              \* document a writer has serialised but not yet flushed
    wstale,            \* TRUE once another handle wrote after this writer's open
    \* ---- filesystem ----
    disk,              \* the files that exist: path -> (size, embedded duration)
    \* ---- history ----
    nops,              \* tracker operations performed so far
    marked,            \* <<track, path>>: marked, file unchanged, identity not removed
    markedKept,        \* as marked, and identity not recorded again with another size
    idLog,             \* <<track, identity>> pairs computed so far
    prev,              \* the ledger and its file before the last tracker call
    \* ---- calls of the pure functions ----
    finder,            \* the frame of a _find_best_match call: arguments, locals, result
    checked,           \* the last _is_file_complete call: arguments and result
    dest,              \* the last destination path a provider built for a track
    dl,                \* the frame of a Downloader.download call
    \* ---- several DownloadTracker objects on one directory ----
    mem                \* completed_tracks of each object, and which one wrote last

vars == << config, sources, source_priority, last_source,
           pc, req, idx, attempt, result, returned, invoked, fetched, current, nreq, slept,
           completed_tracks, tracker_file, ret, wpc, wbuf, wstale,
           disk, nops, marked, markedKept, idLog, prev, finder, checked, dest, dl, mem >>

orchVars   == << config, sources, source_priority, last_source >>
reqVars    == << pc, req, idx, attempt, result, returned, invoked, fetched, current, nreq,
                 slept >>
writerVars == << wpc, wbuf, wstale >>
histVars   == << nops, marked, markedKept, idLog, prev >>
callVars   == << finder, checked, dest, dl, mem >>

\* Python dictionaries are functions on their key sets
EmptyDict == << >>
DictSet(d, k, v) == [ x \in (DOMAIN d) \cup {k} |-> IF x = k THEN v ELSE d[x] ]
DictDel(d, k) == [ x \in (DOMAIN d) \ {k} |-> d[x] ]

\* a path-valued result that is falsy in Python (None or ''): the empty path
None == << >>
\* self.last_source before any success
NoSource == "None"

-----------------------------------------------------------------------------
(* Bounds of the model *)

\* requests issued in one session
MaxRequests == 2
\* tracker operations in one run of the ledger specification
MaxOps == 4

-----------------------------------------------------------------------------
(* Strings and paths *)

Range(s) == { s[i] : i \in 1..Len(s) }

\* index of the last occurrence of character c in s, 0 when absent (str.rfind + 1)
LastIndexOf(s, c) ==
    LET I == { i \in 1..Len(s) : s[i] = c }
    IN  IF I = {} THEN 0 ELSE CHOOSE i \in I : \A j \in I : j <= i

\* pathlib: Path.name, the final component
PathName(p) == SubSeq(p, LastIndexOf(p, "/") + 1, Len(p))

\* pathlib: Path.suffix, the final component's last dot-suffix ('' if none)
PathSuffix(p) ==
    LET n == PathName(p)
        i == LastIndexOf(n, ".")
    IN  IF 1 < i /\ i < Len(n) THEN SubSeq(n, i, Len(n)) ELSE << >>

\* str[1:]
DropFirst(s) == IF s = << >> THEN << >> ELSE Tail(s)

\* pathlib: a / b
Slash(a, b) == a \o <<"/">> \o b

\* config['download']['output_dir']
output_dir == <<"d">>

\* '{:02d}'.format(n), for 0 <= n <= 99
Digit(n) == << "0", "1", "2", "3", "4", "5", "6", "7", "8", "9" >>[n + 1]
TwoDigits(n) == << Digit(n \div 10), Digit(n % 10) >>

\* Downloader._sanitize_filename: every invalid character becomes '_', then
\* leading and trailing dots and spaces are stripped
invalid_chars == { "<", ">", ":", "\"", "/", "\\", "|", "?", "*" }
StripLeft(s) ==
    LET K == { i \in 1..Len(s) : s[i] \notin { ".", " " } }
    IN  IF K = {} THEN << >>
        ELSE SubSeq(s, CHOOSE i \in K : \A j \in K : i <= j, Len(s))
StripRight(s) ==
    LET K == { i \in 1..Len(s) : s[i] \notin { ".", " " } }
    IN  IF K = {} THEN << >>
        ELSE SubSeq(s, 1, CHOOSE i \in K : \A j \in K : j <= i)
SanitizeFilename(filename) ==
    StripRight(StripLeft([ i \in 1..Len(filename) |->
        IF filename[i] \in invalid_chars THEN "_" ELSE filename[i] ]))

\* pathlib: Path.with_suffix
WithSuffix(p, suffix) ==
    SubSeq(p, 1, Len(p) - Len(PathSuffix(p))) \o suffix

DotFlac == << ".", "f", "l", "a", "c" >>
DotMp3 == << ".", "m", "p", "3" >>
Dash == << " ", "-", " " >>

-----------------------------------------------------------------------------
(* Tracks *)

Track(ar, nm, al, tn, dur) ==
    [ artist |-> ar, name |-> nm, album |-> al, track_number |-> tn, duration_ms |-> dur ]

\* the request of the scenarios: a 200 s track
TrackA == Track(<<"a">>, <<"s">>, <<"x">>, 1, 200000)
\* the same (artist, name, album), other fields different
TrackA2 == Track(<<"a">>, <<"s">>, <<"x">>, 2, 100000)
\* the same artist and title on another album
TrackB == Track(<<"a">>, <<"s">>, <<"y">>, 1, 200000)

Tracks == { TrackA, TrackA2, TrackB }

Triple(t) == << t.artist, t.name, t.album >>

-----------------------------------------------------------------------------
(* Destination paths *)

\* InternetArchiveClient.download_track and JamendoClient.download_track:
\* Path(output_dir) / artist / f"{artist} - {title}.flac"
ClientOutputFile(track) ==
    Slash(Slash(output_dir, track.artist), track.artist \o Dash \o track.name \o DotFlac)

\* Downloader._get_output_path with the default organisation settings:
\* output_dir / artist / album / '{track_number:02d} - {artist} - {title}'
GetOutputPath(track) ==
    LET artist == SanitizeFilename(track.artist)
        album  == SanitizeFilename(track.album)
        title  == SanitizeFilename(track.name)
    IN  Slash(Slash(Slash(output_dir, artist), album),
              TwoDigits(track.track_number) \o Dash \o artist \o Dash \o title)

\* Downloader._get_codec with audio_format 'mp3', and the path yt-dlp writes
FinalPath(track) == WithSuffix(GetOutputPath(track), DotMp3)

-----------------------------------------------------------------------------
(* Files *)

\* a file on disk: its size in bytes and the duration mutagen reads from it
\* in milliseconds (0: no duration, -1: mutagen cannot identify the format)
FileOf(sz, len) == [ size |-> sz, length |-> len ]

\* a complete rendition of a 200 s track
GoodFile == FileOf(5000000, 200000)
\* a rendition that stops after 100 s
HalfFile == FileOf(2500000, 100000)

Files == { GoodFile, HalfFile }

\* Path.exists; d[p] is defined exactly for the paths that exist
Exists(d, p) == p \in DOMAIN d

-----------------------------------------------------------------------------
(* Downloader: the completeness validator *)

\* a plausible slip: the bounds of the duration ratio are exclusive
FileCompleteExclusive(file, track) ==
    IF file.length = -2 \/ (file.length > 0 /\ track.duration_ms = 0)
    THEN file.size > 500000
    ELSE IF file.length = -1
    THEN FALSE
    ELSE IF file.length > 0
    THEN /\ 85 * track.duration_ms < 100 * file.length
         /\ 100 * file.length < 115 * track.duration_ms
    ELSE 6 * file.size >= 35 * track.duration_ms

\* a plausible slip: the 30% margin of the size estimate is left out
FileCompleteNoMargin(file, track) ==
    IF file.length = -2 \/ (file.length > 0 /\ track.duration_ms = 0)
    THEN file.size > 500000
    ELSE IF file.length = -1
    THEN FALSE
    ELSE IF file.length > 0
    THEN /\ 85 * track.duration_ms <= 100 * file.length
         /\ 100 * file.length <= 115 * track.duration_ms
    ELSE 6 * file.size >= 50 * track.duration_ms

\* _is_file_complete on the content of the file.  Durations are compared as
\* exact ratios: 0.85 <= length / duration_ms <= 1.15.
FileComplete(file, track) ==
    IF file.length = -2 \/ (file.length > 0 /\ track.duration_ms = 0)
    THEN \* mutagen raises, or the ratio divides by zero: the except branch
         file.size > 500000
    ELSE IF file.length = -1
    THEN \* mutagen.File returns None
         FALSE
    ELSE IF file.length > 0
    THEN /\ 85 * track.duration_ms <= 100 * file.length
         /\ 100 * file.length <= 115 * track.duration_ms
    ELSE \* no duration: size >= 0.7 * (duration_ms / 1000 / 60) * 500000
         6 * file.size >= 35 * track.duration_ms

IsFileComplete(d, file_path, track) == FileComplete(d[file_path], track)

\* config['download']['skip_existing'], by default
skip_existing == TRUE

-----------------------------------------------------------------------------
(* DownloadTracker *)

\* hashlib.md5(...).hexdigest(): one digest per distinct input string
md5_hexdigest(s) == [ md5 |-> s ]

\* a plausible slip: the track number takes part in the identity
GetTrackIdWithNumber(track) ==
    md5_hexdigest(track.artist \o <<"|">> \o track.name \o <<"|">> \o track.album
                  \o <<"|">> \o TwoDigits(track.track_number))

\* _get_track_id: md5 of f"{artist}|{name}|{album}"
GetTrackId(track) ==
    md5_hexdigest(track.artist \o <<"|">> \o track.name \o <<"|">> \o track.album)

\* the entry mark_downloaded builds
Entry(track, file_path, d) ==
    [ artist |-> track.artist,
      name   |-> track.name,
      album  |-> track.album,
      file   |-> file_path,
      size   |-> d[file_path].size,
      format |-> DropFirst(PathSuffix(file_path)) ]

\* a plausible slip: the dictionary is rebuilt with the new entry alone
MarkTracksReplaceAll(tracks, d, track, file_path) ==
    DictSet(EmptyDict, GetTrackId(track), Entry(track, file_path, d))

\* a plausible slip: an identity that has an entry keeps it (setdefault)
MarkTracksKeepFirst(tracks, d, track, file_path) ==
    IF GetTrackId(track) \in DOMAIN tracks THEN tracks
    ELSE DictSet(tracks, GetTrackId(track), Entry(track, file_path, d))

\* mark_downloaded on the in-memory ledger (the file exists)
MarkTracks(tracks, d, track, file_path) ==
    DictSet(tracks, GetTrackId(track), Entry(track, file_path, d))

\* a plausible slip: the eviction clears the dictionary
RemoveTracksClear(tracks, track) ==
    IF GetTrackId(track) \in DOMAIN tracks THEN EmptyDict ELSE tracks

\* a plausible slip: the entry is deleted by its title, whatever the album
RemoveTracksByName(tracks, track) ==
    [ k \in { x \in DOMAIN tracks :
                 tracks[x].artist # track.artist \/ tracks[x].name # track.name }
        |-> tracks[k] ]

\* remove_track on the in-memory ledger
RemoveTracks(tracks, track) ==
    IF GetTrackId(track) \in DOMAIN tracks
    THEN DictDel(tracks, GetTrackId(track))
    ELSE tracks

\* a plausible slip: the entry of the identity is dropped when the file is
\* missing, as is_downloaded does
MarkFailedDropped(tracks, track) == RemoveTracks(tracks, track)

\* mark_downloaded when file_path.stat() raises, line 101: the dictionary
\* display is evaluated before the item assignment of line 96, so the
\* dictionary is not touched and _save_tracker is not reached
MarkFailed(tracks, track) == tracks

\* dict.get(key, default)
DictGet(d, k, default) == IF k \in DOMAIN d THEN d[k] ELSE default

\* a plausible slip: formats[fmt] = 1 in the loop of _count_formats
CountFormatsFromOnes(tracks, keys, formats) ==
    [ fmt \in DOMAIN formats \cup { tracks[k].format : k \in keys } |-> 1 ]

\* the loop of _count_formats over the entries not yet visited:
\* formats[fmt] = formats.get(fmt, 0) + 1
RECURSIVE CountFormatsFrom(_, _, _)
CountFormatsFrom(tracks, keys, formats) ==
    IF keys = {} THEN formats
    ELSE LET k == CHOOSE x \in keys : TRUE
             fmt == tracks[k].format
         IN  CountFormatsFrom(tracks, keys \ { k },
                              DictSet(formats, fmt, DictGet(formats, fmt, 0) + 1))

\* _count_formats
CountFormats(tracks) == CountFormatsFrom(tracks, DOMAIN tracks, EmptyDict)

\* get_stats
GetStats(tracks) ==
    [ total_downloaded |-> Cardinality(DOMAIN tracks), formats |-> CountFormats(tracks) ]

\* a plausible slip: the comparison of the sizes is inverted
IsDownloadedInverted(tracks, d, track, file_path) ==
    /\ Exists(d, file_path)
    /\ GetTrackId(track) \in DOMAIN tracks
    /\ tracks[GetTrackId(track)].size # d[file_path].size

\* a plausible slip: the identity alone decides, the size is not compared
IsDownloadedNoSize(tracks, d, track, file_path) ==
    /\ Exists(d, file_path)
    /\ GetTrackId(track) \in DOMAIN tracks

\* is_downloaded, on the in-memory ledger `tracks` and the filesystem `d`
IsDownloaded(tracks, d, track, file_path) ==
    LET track_id == GetTrackId(track)
    IN  IF ~Exists(d, file_path) THEN FALSE
        ELSE IF track_id \in DOMAIN tracks
             THEN IF tracks[track_id].size = d[file_path].size THEN TRUE ELSE FALSE
             ELSE FALSE

\* content of the tracker file: absent, a JSON document, or bytes that
\* json.load rejects (an empty or partly written file).  A document is the
\* JSON object json.dump writes: one "key": value member per dictionary item.
Absent == [ state |-> "absent", doc |-> {} ]
Corrupt == [ state |-> "corrupt", doc |-> {} ]
Json(tracks) == [ state |-> "json", doc |-> { << k, tracks[k] >> : k \in DOMAIN tracks } ]

\* json.load: the dictionary of the members of the object
JsonLoad(doc) ==
    [ k \in { m[1] : m \in doc } |-> (CHOOSE m \in doc : m[1] = k)[2] ]

\* a plausible slip: the test of tracker_file.exists() is inverted
LoadTrackerInverted(f) == IF f.state = "json" THEN EmptyDict ELSE JsonLoad(f.doc)

\* _load_tracker
LoadTracker(f) == IF f.state = "json" THEN JsonLoad(f.doc) ELSE EmptyDict

\* _save_tracker, written in one piece: the write succeeds, or it fails before
\* the file is opened (file untouched), or after open(..., 'w') truncated it;
\* the exception is caught in each case
SaveOutcomes == { "ok", "fail_before_open", "fail_after_open" }

\* a plausible slip: the file is updated with the dictionary's items instead
\* of being rewritten, so members of the old document stay behind
SaveTrackerMerging(tracks, f, how) ==
    CASE how = "ok" -> [ state |-> "json",
                         doc |-> { m \in f.doc : m[1] \notin DOMAIN tracks }
                                 \cup { << k, tracks[k] >> : k \in DOMAIN tracks } ]
      [] how = "fail_before_open" -> f
      [] how = "fail_after_open" -> Corrupt
SaveTracker(tracks, f, how) ==
    CASE how = "ok" -> Json(tracks)
      [] how = "fail_before_open" -> f
      [] how = "fail_after_open" -> Corrupt

\* the record of a tracker call: `at` numbers the operation that made it
Call(op, at, track, path, value) ==
    [ op |-> op, at |-> at, track |-> track, path |-> path, value |-> value ]
NoCall == [ op |-> "none", at |-> 0 ]

\* identities computed so far, by (artist, name, album)
Logged(log, track) == log \cup { << Triple(track), GetTrackId(track) >> }

SameIdentity(t1, t2) == GetTrackId(t1) = GetTrackId(t2)

\* what a tracker call started from: self.completed_tracks and the content of
\* the tracker file before the call, and how the call's _save_tracker ended
\* ("none" when the call does not write)
Before(tracks, f, how) == [ tracks |-> tracks, file |-> f, how |-> how ]

-----------------------------------------------------------------------------
(* The ledger used by one thread: calls of the DownloadTracker interface,  *)
(* changes of the files by other programs, and restarts of the process.    *)

LedgerPaths == { ClientOutputFile(TrackA), FinalPath(TrackB) }

\* mark_downloaded(track, file_path)
MarkDownloaded(track, file_path, how) ==
    /\ nops < MaxOps
    /\ nops' = nops + 1
    /\ idLog' = Logged(idLog, track)
    /\ IF ~Exists(disk, file_path)
       THEN \* file_path.stat() raises before the ledger is touched
            /\ ret' = Call("mark_downloaded", nops', track, file_path, "raised")
            /\ prev' = Before(completed_tracks, tracker_file, "none")
            /\ completed_tracks' = MarkFailed(completed_tracks, track)
            /\ UNCHANGED << tracker_file, marked, markedKept >>
       ELSE /\ completed_tracks' = MarkTracks(completed_tracks, disk, track, file_path)
            /\ tracker_file' = SaveTracker(completed_tracks', tracker_file, how)
            /\ ret' = Call("mark_downloaded", nops', track, file_path, "ok")
            /\ prev' = Before(completed_tracks, tracker_file, how)
            /\ marked' = marked \cup { << track, file_path >> }
            /\ markedKept' =
                 { m \in markedKept :
                     SameIdentity(m[1], track) => disk[m[2]].size = disk[file_path].size }
                 \cup { << track, file_path >> }
    /\ UNCHANGED << disk, orchVars, reqVars, writerVars, callVars >>

\* remove_track(track)
RemoveTrack(track, how) ==
    /\ nops < MaxOps
    /\ nops' = nops + 1
    /\ idLog' = Logged(idLog, track)
    /\ completed_tracks' = RemoveTracks(completed_tracks, track)
    /\ tracker_file' = IF GetTrackId(track) \in DOMAIN completed_tracks
                       THEN SaveTracker(completed_tracks', tracker_file, how)
                       ELSE tracker_file
    /\ ret' = Call("remove_track", nops', track, None, "ok")
    /\ prev' = Before(completed_tracks, tracker_file,
                       IF GetTrackId(track) \in DOMAIN completed_tracks THEN how ELSE "none")
    /\ marked' = { m \in marked : ~SameIdentity(m[1], track) }
    /\ markedKept' = { m \in markedKept : ~SameIdentity(m[1], track) }
    /\ UNCHANGED << disk, orchVars, reqVars, writerVars, callVars >>

\* is_downloaded(track, file_path)
CallIsDownloaded(track, file_path) ==
    /\ nops < MaxOps
    /\ nops' = nops + 1
    /\ idLog' = Logged(idLog, track)
    /\ ret' = Call("is_downloaded", nops', track, file_path,
                   IsDownloaded(completed_tracks, disk, track, file_path))
    /\ prev' = Before(completed_tracks, tracker_file, "none")
    /\ UNCHANGED << completed_tracks, tracker_file, disk, marked, markedKept,
                    orchVars, reqVars, writerVars, callVars >>

\* get_stats()
CallGetStats ==
    /\ nops < MaxOps
    /\ nops' = nops + 1
    /\ ret' = [ op |-> "get_stats", at |-> nops', value |-> GetStats(completed_tracks) ]
    /\ prev' = Before(completed_tracks, tracker_file, "none")
    /\ UNCHANGED << completed_tracks, tracker_file, disk, marked, markedKept, idLog,
                    orchVars, reqVars, writerVars, callVars >>

\* another program writes, replaces or deletes a file of the output directory
ChangeFile(p, f) ==
    /\ nops < MaxOps
    /\ nops' = nops + 1
    /\ \/ /\ (Exists(disk, p) => disk[p] # f)
          /\ disk' = DictSet(disk, p, f)
       \/ /\ Exists(disk, p)
          /\ disk' = DictDel(disk, p)
    /\ marked' = { m \in marked : m[2] # p }
    /\ markedKept' = { m \in markedKept : m[2] # p }
    /\ UNCHANGED << completed_tracks, tracker_file, ret, idLog, prev,
                    orchVars, reqVars, writerVars, callVars >>

\* the process ends and a new one constructs DownloadTracker(output_dir)
Restart ==
    /\ nops < MaxOps
    /\ nops' = nops + 1
    /\ completed_tracks' = LoadTracker(tracker_file)
    /\ ret' = NoCall
    /\ marked' = {}
    /\ markedKept' = {}
    /\ prev' = Before(completed_tracks', tracker_file, "none")
    /\ UNCHANGED << tracker_file, disk, idLog, orchVars, reqVars, writerVars, callVars >>

\* values of the variables a specification does not use
IdleOrchestrator ==
    /\ config = [ failed |-> {}, disabled |-> {}, deezer |-> "off" ]
    /\ sources = {}
    /\ source_priority = << >>
    /\ last_source = NoSource
NotReturned == [ status |-> "none", path |-> None, provider_id |-> NoSource ]
NotCurrent == [ hit |-> FALSE, file |-> None ]
RequestsInit(W) ==
    /\ pc = [ w \in W |-> "idle" ]
    /\ req = [ w \in W |-> TrackA ]
    /\ idx = [ w \in W |-> 0 ]
    /\ attempt = [ w \in W |-> 0 ]
    /\ result = [ w \in W |-> None ]
    /\ returned = [ w \in W |-> NotReturned ]
    /\ invoked = [ w \in W |-> {} ]
    /\ fetched = [ w \in W |-> {} ]
    /\ current = [ w \in W |-> NotCurrent ]
    /\ nreq = 0
    /\ slept = [ w \in W |-> {} ]
IdleRequests == RequestsInit({})
IdleWriters ==
    /\ wpc = << >>
    /\ wbuf = << >>
    /\ wstale = << >>
IdleCalls ==
    /\ finder = [ pc |-> "idle" ]
    /\ checked = [ op |-> "none" ]
    /\ dest = [ op |-> "none" ]
    /\ dl = [ pc |-> "idle" ]
    /\ mem = [ last |-> 0 ]
IdleHistory ==
    /\ nops = 0
    /\ marked = {}
    /\ markedKept = {}
    /\ idLog = {}
    /\ prev = Before(EmptyDict, Absent, "none")

InitLedger ==
    /\ IdleOrchestrator /\ IdleRequests /\ IdleWriters /\ IdleHistory /\ IdleCalls
    /\ disk \in { DictSet(EmptyDict, ClientOutputFile(TrackA), GoodFile),
                   DictSet(EmptyDict, FinalPath(TrackB), HalfFile) }
    /\ tracker_file = Absent
    /\ completed_tracks = LoadTracker(tracker_file)
    /\ ret = NoCall

NextLedger ==
    \/ \E t \in Tracks, p \in LedgerPaths, how \in SaveOutcomes : MarkDownloaded(t, p, how)
    \/ \E t \in Tracks, how \in SaveOutcomes : RemoveTrack(t, how)
    \/ \E t \in Tracks, p \in LedgerPaths : CallIsDownloaded(t, p)
    \/ CallGetStats
    \/ \E p \in LedgerPaths, f \in Files : ChangeFile(p, f)
    \/ Restart

SpecLedger == InitLedger /\ [][NextLedger]_vars

-----------------------------------------------------------------------------
(* MultiSourceDownloader *)

Providers == { "internetarchive", "jamendo", "deezer", "youtube" }

\* a plausible slip: the YouTube entry is registered outside the try block
InitializeSourcesYoutubeAlways(cfg) ==
    { s \in { "internetarchive", "jamendo" } : s \notin cfg.disabled /\ s \notin cfg.failed }
    \cup { s \in { "deezer" } : cfg.deezer = "on" /\ s \notin cfg.failed }
    \cup { "youtube" }

\* _initialize_sources: the keys of self.sources after construction.
\* cfg.disabled: providers configured with enabled = False; cfg.failed:
\* providers whose import or constructor raises; cfg.deezer: "off" (not
\* enabled), "no_token", "no_library" (DEEMIX_AVAILABLE false) or "on".
InitializeSources(cfg) ==
    { s \in { "internetarchive", "jamendo" } : s \notin cfg.disabled /\ s \notin cfg.failed }
    \cup { s \in { "deezer" } : cfg.deezer = "on" /\ s \notin cfg.failed }
    \cup { s \in { "youtube" } : s \notin cfg.failed }

\* the outcome of one provider attempt: a value, or an exception
Value(v) == [ raised |-> FALSE, value |-> v ]
Raised == [ raised |-> TRUE, value |-> None ]

\* the try/except of _download_from_internetarchive, _jamendo, _deezer and the
\* last round of _download_from_youtube: an exception becomes None
Absorbed(a) == IF a.raised THEN Value(None) ELSE a

\* a plausible slip: the attempt's result is returned whether or not it is a file
ControlReturnAlways(a) == IF a.raised THEN "continue" ELSE "return"

\* a plausible slip: the success branch does not return
ControlNeverReturn(a) == IF a.raised THEN "continue" ELSE "next"

\* download, lines 117-126: what the loop does with the outcome of an attempt
Control(a) ==
    IF a.raised THEN "continue"
    ELSE IF a.value # None THEN "return"
    ELSE "next"

\* max_retries of _download_from_youtube
max_retries == 2

\* DeemixClient.download_track is not part of the sources: it may write the
\* file at any of these destinations
DeemixOutputFiles(track) == { ClientOutputFile(track), FinalPath(track) }

\* a provider call made for a request: loop index, provider, call, retry
\* index, and how the call ended
Invocation(i, source, call, n, out) == << i, source, call, n, out >>

\* a plausible slip: after a failed attempt the loop stays on the provider
AfterAttemptRetry(w, a, d) ==
    LET source == source_priority[idx[w]]
        c == Control(a)
    IN  /\ fetched' = [ fetched EXCEPT ![w] =
                          IF a.raised \/ a.value = None THEN @
                          ELSE @ \cup { [ idx |-> idx[w], path |-> a.value,
                                          file |-> d[a.value] ] } ]
        /\ IF c = "return"
           THEN /\ last_source' = source
                /\ result' = [ result EXCEPT ![w] = a.value ]
                /\ pc' = [ pc EXCEPT ![w] = "returned" ]
                /\ UNCHANGED idx
           ELSE /\ pc' = [ pc EXCEPT ![w] = "download" ]
                /\ UNCHANGED << idx, last_source, result >>

\* a plausible slip: a failed attempt advances the loop by two entries
AfterAttemptSkip(w, a, d) ==
    LET source == source_priority[idx[w]]
        c == Control(a)
    IN  /\ fetched' = [ fetched EXCEPT ![w] =
                          IF a.raised \/ a.value = None THEN @
                          ELSE @ \cup { [ idx |-> idx[w], path |-> a.value,
                                          file |-> d[a.value] ] } ]
        /\ IF c = "return"
           THEN /\ last_source' = source
                /\ result' = [ result EXCEPT ![w] = a.value ]
                /\ pc' = [ pc EXCEPT ![w] = "returned" ]
                /\ UNCHANGED idx
           ELSE /\ idx' = [ idx EXCEPT ![w] = @ + 2 ]
                /\ pc' = [ pc EXCEPT ![w] = "download" ]
                /\ UNCHANGED << last_source, result >>

\* the loop of download leaves the attempt on source_priority[idx[w]] with
\* outcome a; path and file describe what the fetch wrote (if it wrote)
AfterAttempt(w, a, d) ==
    LET source == source_priority[idx[w]]
        c == Control(a)
    IN  /\ fetched' = [ fetched EXCEPT ![w] =
                          IF a.raised \/ a.value = None THEN @
                          ELSE @ \cup { [ idx |-> idx[w], path |-> a.value,
                                          file |-> d[a.value] ] } ]
        /\ IF c = "return"
           THEN /\ last_source' = source
                /\ result' = [ result EXCEPT ![w] = a.value ]
                /\ pc' = [ pc EXCEPT ![w] = "returned" ]
                /\ UNCHANGED idx
           ELSE /\ idx' = [ idx EXCEPT ![w] = @ + 1 ]
                /\ pc' = [ pc EXCEPT ![w] = "download" ]
                /\ UNCHANGED << last_source, result >>

\* the ledger holds a current, correctly sized file for the track
CachedFile(tracks, d, track) ==
    IF GetTrackId(track) \in DOMAIN tracks
    THEN tracks[GetTrackId(track)].file
    ELSE None

\* acquire, first part: the caller's ledger check before download is called.
\* `current` keeps what was true of the ledger and the disk at that moment.
Acquire(w, track) ==
    /\ pc[w] \in { "idle", "done" }
    /\ nreq < MaxRequests
    /\ nreq' = nreq + 1
    /\ slept' = [ slept EXCEPT ![w] = {} ]
    /\ req' = [ req EXCEPT ![w] = track ]
    /\ invoked' = [ invoked EXCEPT ![w] = {} ]
    /\ fetched' = [ fetched EXCEPT ![w] = {} ]
    /\ result' = [ result EXCEPT ![w] = None ]
    /\ attempt' = [ attempt EXCEPT ![w] = 0 ]
    /\ LET id == GetTrackId(track)
           file == CachedFile(completed_tracks, disk, track)
       IN  /\ current' = [ current EXCEPT ![w] =
                 IF /\ id \in DOMAIN completed_tracks
                    /\ Exists(disk, completed_tracks[id].file)
                    /\ completed_tracks[id].size = disk[completed_tracks[id].file].size
                 THEN [ hit |-> TRUE, file |-> completed_tracks[id].file ]
                 ELSE NotCurrent ]
           /\ IF file # None /\ IsDownloaded(completed_tracks, disk, track, file)
              THEN /\ returned' = [ returned EXCEPT ![w] =
                        [ status |-> "Succeeded", path |-> file, provider_id |-> NoSource ] ]
                   /\ pc' = [ pc EXCEPT ![w] = "done" ]
                   /\ idx' = [ idx EXCEPT ![w] = 0 ]
              ELSE /\ returned' = [ returned EXCEPT ![w] = NotReturned ]
                   /\ pc' = [ pc EXCEPT ![w] = "download" ]
                   /\ idx' = [ idx EXCEPT ![w] = 1 ]
    /\ UNCHANGED << orchVars, completed_tracks, tracker_file, ret, disk,
                    writerVars, callVars, histVars >>

\* download, lines 99-115 and 128-129: the head of the loop
LoopHead(w) ==
    /\ pc[w] = "download"
    /\ IF idx[w] > Len(source_priority)
       THEN /\ result' = [ result EXCEPT ![w] = None ]
            /\ pc' = [ pc EXCEPT ![w] = "returned" ]
            /\ UNCHANGED << idx, attempt >>
       ELSE LET source == source_priority[idx[w]]
            IN  IF source \notin sources
                THEN /\ idx' = [ idx EXCEPT ![w] = @ + 1 ]
                     /\ UNCHANGED << pc, result, attempt >>
                ELSE IF source \in { "internetarchive", "jamendo", "deezer" }
                THEN /\ pc' = [ pc EXCEPT ![w] = "search" ]
                     /\ UNCHANGED << idx, result, attempt >>
                ELSE IF source = "youtube"
                THEN /\ pc' = [ pc EXCEPT ![w] = "yt_search" ]
                     /\ attempt' = [ attempt EXCEPT ![w] = 0 ]
                     /\ UNCHANGED << idx, result >>
                ELSE /\ idx' = [ idx EXCEPT ![w] = @ + 1 ]
                     /\ UNCHANGED << pc, result, attempt >>
    /\ UNCHANGED << orchVars, req, returned, invoked, fetched, current, nreq, slept,
                    completed_tracks, tracker_file, ret, disk, writerVars, callVars, histVars >>

\* _download_from_internetarchive / _jamendo / _deezer: client.search_track
Search(w, out) ==
    /\ pc[w] = "search"
    /\ invoked' = [ invoked EXCEPT ![w] =
                      @ \cup { Invocation(idx[w], source_priority[idx[w]], "search", 0, out) } ]
    /\ IF out = "found"
       THEN /\ pc' = [ pc EXCEPT ![w] = "fetch" ]
            /\ UNCHANGED << idx, result, fetched, last_source >>
       ELSE AfterAttempt(w, Absorbed(IF out = "raise" THEN Raised ELSE Value(None)), disk)
    /\ UNCHANGED << config, sources, source_priority, req, attempt, returned, current,
                    nreq, slept, completed_tracks, tracker_file, ret, disk, writerVars, callVars, histVars >>

\* what client.download_track leaves on disk and returns.
\* how = "ok": the transfer completes; "none": it fails before the file is
\* opened; "broken": it raises after part of the file was written.
ClientDownload(source, d, file_path, how, f) ==
    CASE how = "none" -> [ disk |-> d, out |-> Value(None) ]
      [] how = "broken" -> [ disk |-> DictSet(d, file_path, f), out |-> Value(None) ]
      [] how = "ok" ->
           IF source = "jamendo" /\ f.size < 100000
           THEN \* JamendoClient: the file is too small, it is unlinked
                [ disk |-> DictDel(d, file_path), out |-> Value(None) ]
           ELSE [ disk |-> DictSet(d, file_path, f), out |-> Value(file_path) ]

\* _download_from_internetarchive / _jamendo / _deezer: client.download_track
Fetch(w, how, f) ==
    /\ pc[w] = "fetch"
    /\ LET source == source_priority[idx[w]]
       IN  /\ invoked' = [ invoked EXCEPT ![w] =
                            @ \cup { Invocation(idx[w], source, "fetch", 0, how) } ]
           /\ \E file_path \in IF source = "deezer" THEN DeemixOutputFiles(req[w])
                                                    ELSE { ClientOutputFile(req[w]) } :
                LET r == ClientDownload(source, disk, file_path, how, f)
                IN  /\ disk' = r.disk
                    /\ AfterAttempt(w, Absorbed(r.out), r.disk)
    /\ UNCHANGED << config, sources, source_priority, req, attempt, returned, current,
                    nreq, slept, completed_tracks, tracker_file, ret, writerVars, callVars, histVars >>

\* a plausible slip: the comparison that ends the retry loop is off by one
YoutubeRoundFailedOffByOne(w) ==
    IF attempt[w] < max_retries
    THEN /\ attempt' = [ attempt EXCEPT ![w] = @ + 1 ]
         /\ pc' = [ pc EXCEPT ![w] = "yt_search" ]
         /\ UNCHANGED << idx, result, fetched, last_source >>
    ELSE /\ AfterAttempt(w, Value(None), disk)
         /\ UNCHANGED attempt

\* _download_from_youtube: the end of one round of the retry loop that
\* produced no file (not found, fetch failed, or an exception)
YoutubeRoundFailed(w) ==
    IF attempt[w] < max_retries - 1
    THEN /\ attempt' = [ attempt EXCEPT ![w] = @ + 1 ]
         /\ pc' = [ pc EXCEPT ![w] = "yt_search" ]
         /\ UNCHANGED << idx, result, fetched, last_source >>
    ELSE /\ AfterAttempt(w, Value(None), disk)
         /\ UNCHANGED attempt

\* random.uniform(1, 3), in seconds
Delays == { 1, 2, 3 }

\* lines 247-250: time.sleep(delay) when attempt > 0, nothing for the first
Delay(n) == IF n > 0 THEN Delays ELSE { 0 }

\* _download_from_youtube: the delay of a retry, then
\* searcher.search(track, retry_count=attempt)
YoutubeSearch(w, out, delay) ==
    /\ pc[w] = "yt_search"
    /\ delay \in Delay(attempt[w])
    /\ invoked' = [ invoked EXCEPT ![w] =
                      @ \cup { Invocation(idx[w], "youtube", "search", attempt[w], out) } ]
    /\ IF out = "found"
       THEN /\ pc' = [ pc EXCEPT ![w] = "yt_fetch" ]
            /\ UNCHANGED << idx, result, fetched, last_source, attempt >>
       ELSE YoutubeRoundFailed(w)
    /\ slept' = [ slept EXCEPT ![w] =
                     IF pc'[w] \notin { "yt_search", "yt_fetch" } THEN {}
                     ELSE IF attempt[w] > 0 THEN @ \cup { << attempt[w], delay >> }
                     ELSE @ ]
    /\ UNCHANGED << config, sources, source_priority, req, returned, current,
                    nreq, completed_tracks, tracker_file, ret, disk, writerVars, callVars, histVars >>

\* Downloader.download: what it leaves on disk and returns.
\* how = "ok": yt-dlp writes f at the final path; "none": yt-dlp returns
\* without writing; "raise": yt-dlp raises.
DownloaderDownload(d, track, how, f) ==
    LET output_path == GetOutputPath(track)
        final_path == FinalPath(track)
        existing == skip_existing /\ Exists(d, output_path)
        d1 == IF existing /\ ~IsFileComplete(d, output_path, track)
              THEN DictDel(d, output_path) ELSE d
        d2 == IF how = "ok" THEN DictSet(d1, final_path, f) ELSE d1
    IN  IF existing /\ IsFileComplete(d, output_path, track)
        THEN [ disk |-> d, out |-> Value(output_path), fetch |-> FALSE ]
        ELSE IF how = "raise"
        THEN [ disk |-> d1, out |-> Value(None), fetch |-> TRUE ]
        ELSE [ disk |-> d2,
               out |-> IF Exists(d2, final_path) THEN Value(final_path) ELSE Value(None),
               fetch |-> TRUE ]

\* _download_from_youtube: downloader.download(youtube_url, track, ...)
YoutubeFetch(w, how, f) ==
    /\ pc[w] = "yt_fetch"
    /\ invoked' = [ invoked EXCEPT ![w] =
                      @ \cup { Invocation(idx[w], "youtube", "fetch", attempt[w], how) } ]
    /\ LET r == DownloaderDownload(disk, req[w], how, f)
       IN  /\ disk' = r.disk
           /\ IF r.out.value # None
              THEN /\ AfterAttempt(w, r.out, r.disk)
                   /\ UNCHANGED attempt
              ELSE YoutubeRoundFailed(w)
    /\ slept' = [ slept EXCEPT ![w] = IF pc'[w] = "yt_search" THEN @ ELSE {} ]
    /\ UNCHANGED << config, sources, source_priority, req, returned, current,
                    nreq, completed_tracks, tracker_file, ret, writerVars, callVars, histVars >>

\* acquire, last part: download has returned; the caller records a success
\* in the ledger and reports the path with self.last_source
Returned(w) ==
    /\ pc[w] = "returned"
    /\ pc' = [ pc EXCEPT ![w] = "done" ]
    /\ IF result[w] = None
       THEN /\ returned' = [ returned EXCEPT ![w] =
                 [ status |-> "Exhausted", path |-> None, provider_id |-> NoSource ] ]
            /\ UNCHANGED << completed_tracks, tracker_file >>
       ELSE IF ~Exists(disk, result[w])
       THEN /\ returned' = [ returned EXCEPT ![w] =
                 [ status |-> "raised", path |-> None, provider_id |-> NoSource ] ]
            /\ UNCHANGED << completed_tracks, tracker_file >>
       ELSE /\ completed_tracks' = MarkTracks(completed_tracks, disk, req[w], result[w])
            /\ tracker_file' = SaveTracker(completed_tracks', tracker_file, "ok")
            /\ returned' = [ returned EXCEPT ![w] =
                 [ status |-> "Succeeded", path |-> result[w], provider_id |-> last_source ] ]
    /\ UNCHANGED << orchVars, req, idx, attempt, result, invoked, fetched, current, nreq, slept,
                    ret, disk, writerVars, callVars, histVars >>

PriorityLists ==
    { << "internetarchive", "jamendo", "youtube" >>,
      << "jamendo", "deezer", "youtube" >>,
      << "youtube", "soundcloud", "internetarchive" >> }

Config(failed, disabled, deezer) ==
    [ failed |-> failed, disabled |-> disabled, deezer |-> deezer ]
Configs ==
    { Config({}, {}, "on"),
      Config({ "internetarchive" }, {}, "no_library"),
      Config({ "youtube", "deezer" }, { "jamendo" }, "on"),
      Config({}, { "jamendo" }, "no_token") }

\* the tracks requested in a session
ReqTracks == { TrackA, TrackB }

Outcomes == { "found", "none", "raise" }

Init ==
    /\ config \in Configs
    /\ source_priority \in PriorityLists
    /\ sources = InitializeSources(config)
    /\ last_source = NoSource
    /\ RequestsInit({ 1 })
    /\ IdleWriters /\ IdleHistory /\ IdleCalls
    /\ disk \in { EmptyDict,
                  DictSet(EmptyDict, GetOutputPath(TrackA), GoodFile),
                  DictSet(EmptyDict, GetOutputPath(TrackA), HalfFile) }
    /\ tracker_file = Absent
    /\ completed_tracks = LoadTracker(tracker_file)
    /\ ret = NoCall

Next ==
    \/ \E w \in DOMAIN pc, t \in ReqTracks : Acquire(w, t)
    \/ \E w \in DOMAIN pc : LoopHead(w)
    \/ \E w \in DOMAIN pc, out \in Outcomes : Search(w, out)
    \/ \E w \in DOMAIN pc, how \in { "ok", "none", "broken" }, f \in Files : Fetch(w, how, f)
    \/ \E w \in DOMAIN pc, out \in Outcomes, delay \in { 0, 1 } :
          YoutubeSearch(w, out, delay)
    \/ \E w \in DOMAIN pc, how \in { "ok", "none", "raise" }, f \in Files :
          YoutubeFetch(w, how, f)
    \/ \E w \in DOMAIN pc : Returned(w)

Spec == Init /\ [][Next]_vars

\* the configurations of the fair specification: every provider active, and
\* most of them inactive
FairConfigs ==
    { Config({}, {}, "on"),
      Config({ "youtube", "deezer" }, { "jamendo" }, "on") }

\* one thread serving requests for one track, the disk empty at the start
InitFair ==
    /\ config \in FairConfigs
    /\ source_priority \in PriorityLists
    /\ sources = InitializeSources(config)
    /\ last_source = NoSource
    /\ RequestsInit({ 1 })
    /\ IdleWriters /\ IdleHistory /\ IdleCalls
    /\ disk = EmptyDict
    /\ tracker_file = Absent
    /\ completed_tracks = LoadTracker(tracker_file)
    /\ ret = NoCall

NextFair ==
    \/ Acquire(1, TrackA)
    \/ LoopHead(1)
    \/ \E out \in Outcomes : Search(1, out)
    \/ \E how \in { "ok", "none", "broken" } : Fetch(1, how, GoodFile)
    \/ \E out \in Outcomes, delay \in { 0, 1 } : YoutubeSearch(1, out, delay)
    \/ \E how \in { "ok", "none", "raise" } : YoutubeFetch(1, how, GoodFile)
    \/ Returned(1)

\* downloader.download(...) comes back to _download_from_youtube: the thread
\* leaves the call (the same steps as YoutubeFetch, seen from pc alone)
DownloadEnds(w) ==
    /\ pc[w] = "yt_fetch"
    /\ pc' \in { [ pc EXCEPT ![w] = s ] : s \in { "yt_search", "download", "returned" } }

\* the thread of a request keeps running, and every provider call it starts
\* returns or raises
Fair(w) ==
    /\ WF_vars(LoopHead(w))
    /\ WF_vars(\E out \in Outcomes : Search(w, out))
    /\ WF_vars(\E how \in { "ok", "none", "broken" } : Fetch(w, how, GoodFile))
    /\ WF_vars(\E out \in Outcomes, delay \in { 0, 1 } : YoutubeSearch(w, out, delay))
    /\ WF_pc(DownloadEnds(w))
    /\ WF_vars(Returned(w))

FairSpec == InitFair /\ [][NextFair]_vars /\ Fair(1)

\* config['download']['source_priority'] is any list: one that names a
\* provider twice
RepeatedList == << "internetarchive", "youtube", "internetarchive" >>

InitOrder ==
    /\ config \in FairConfigs
    /\ source_priority \in PriorityLists \cup { RepeatedList }
    /\ sources = InitializeSources(config)
    /\ last_source = NoSource
    /\ RequestsInit({ 1 })
    /\ IdleWriters /\ IdleHistory /\ IdleCalls
    /\ disk = EmptyDict
    /\ tracker_file = Absent
    /\ completed_tracks = LoadTracker(tracker_file)
    /\ ret = NoCall

SpecOrder == InitOrder /\ [][NextFair]_vars

\* every provider active, the retry delays drawn from their whole range
InitRetry ==
    /\ config = Config({}, {}, "on")
    /\ source_priority \in PriorityLists
    /\ sources = InitializeSources(config)
    /\ last_source = NoSource
    /\ RequestsInit({ 1 })
    /\ IdleWriters /\ IdleHistory /\ IdleCalls
    /\ disk = EmptyDict
    /\ tracker_file = Absent
    /\ completed_tracks = LoadTracker(tracker_file)
    /\ ret = NoCall

NextRetry ==
    \/ Acquire(1, TrackA)
    \/ LoopHead(1)
    \/ \E out \in Outcomes : Search(1, out)
    \/ \E how \in { "ok", "none", "broken" } : Fetch(1, how, GoodFile)
    \/ \E out \in Outcomes, delay \in { 0 } \cup Delays : YoutubeSearch(1, out, delay)
    \/ \E how \in { "ok", "none", "raise" } : YoutubeFetch(1, how, GoodFile)
    \/ Returned(1)

SpecRetry == InitRetry /\ [][NextRetry]_vars

InitShared ==
    /\ config = Config({}, { "jamendo" }, "no_token")
    /\ source_priority = << "internetarchive", "jamendo", "youtube" >>
    /\ sources = InitializeSources(config)
    /\ last_source = NoSource
    /\ RequestsInit({ 1, 2 })
    /\ IdleWriters /\ IdleHistory /\ IdleCalls
    /\ disk = EmptyDict
    /\ tracker_file = Absent
    /\ completed_tracks = LoadTracker(tracker_file)
    /\ ret = NoCall

\* the track a thread of the pool is given
SharedTrack(w) == IF w = 1 THEN TrackA ELSE TrackB

\* the steps of the two threads, each with its own track, every transfer
\* writing a complete file
NextShared ==
    \/ \E w \in DOMAIN pc : Acquire(w, SharedTrack(w))
    \/ \E w \in DOMAIN pc : LoopHead(w)
    \/ \E w \in DOMAIN pc, out \in Outcomes : Search(w, out)
    \/ \E w \in DOMAIN pc, how \in { "ok", "none" } : Fetch(w, how, GoodFile)
    \/ \E w \in DOMAIN pc, out \in Outcomes, delay \in { 0, 1 } :
          YoutubeSearch(w, out, delay)
    \/ \E w \in DOMAIN pc, how \in { "ok", "none", "raise" } : YoutubeFetch(w, how, GoodFile)
    \/ \E w \in DOMAIN pc : Returned(w)

SpecShared == InitShared /\ [][NextShared]_vars

-----------------------------------------------------------------------------
(* The ledger shared by the threads of several parallel requests.  The     *)
(* code takes no lock: a call is a sequence of steps of its thread.        *)

Threads == { 1, 2 }

\* the file a thread records for a track
RecordedFile(track) == IF track = TrackA THEN ClientOutputFile(TrackA) ELSE FinalPath(TrackB)

\* the files the threads record
WritersDisk ==
    DictSet(DictSet(EmptyDict, ClientOutputFile(TrackA), GoodFile), FinalPath(TrackB), HalfFile)

Buffer(doc) == [ ok |-> TRUE, doc |-> doc ]
Broken == [ ok |-> FALSE, doc |-> EmptyDict ]

\* json.dump iterates the dictionary: if its size changes meanwhile, the
\* iteration raises and the buffer holds part of a document
Disturbed(before, after) ==
    [ t \in Threads |->
        IF wpc[t] = "dumping" /\ DOMAIN before # DOMAIN after THEN Broken ELSE wbuf[t] ]

\* mark_downloaded, lines 94-103: the entry is assigned
WMark(t, track) ==
    /\ wpc[t] = "idle"
    /\ nops < MaxOps
    /\ nops' = nops + 1
    /\ Exists(disk, RecordedFile(track))
    /\ completed_tracks' = MarkTracks(completed_tracks, disk, track, RecordedFile(track))
    /\ wbuf' = Disturbed(completed_tracks, completed_tracks')
    /\ wpc' = [ wpc EXCEPT ![t] = "save" ]
    /\ UNCHANGED << tracker_file, wstale, disk, ret, marked, markedKept, idLog, prev,
                    orchVars, reqVars, callVars >>

\* remove_track, lines 115-117: the entry is deleted; without an entry the
\* call ends there
WRemove(t, track) ==
    /\ wpc[t] = "idle"
    /\ nops < MaxOps
    /\ nops' = nops + 1
    /\ completed_tracks' = RemoveTracks(completed_tracks, track)
    /\ wbuf' = Disturbed(completed_tracks, completed_tracks')
    /\ wpc' = [ wpc EXCEPT ![t] =
                  IF GetTrackId(track) \in DOMAIN completed_tracks THEN "save" ELSE "idle" ]
    /\ UNCHANGED << tracker_file, wstale, disk, ret, marked, markedKept, idLog, prev,
                    orchVars, reqVars, callVars >>

\* _save_tracker, line 44: open(..., 'w') truncates the file
WOpen(t) ==
    /\ wpc[t] = "save"
    /\ wpc' = [ wpc EXCEPT ![t] = "opened" ]
    /\ tracker_file' = Corrupt
    /\ wstale' = [ wstale EXCEPT ![t] = FALSE ]
    /\ UNCHANGED << completed_tracks, wbuf, disk, ret, histVars, orchVars, reqVars, callVars >>

\* _save_tracker, line 45: json.dump starts to serialise the dictionary
WDump(t) ==
    /\ wpc[t] = "opened"
    /\ wpc' = [ wpc EXCEPT ![t] = "dumping" ]
    /\ wbuf' = [ wbuf EXCEPT ![t] = Buffer(completed_tracks) ]
    /\ UNCHANGED << completed_tracks, tracker_file, wstale, disk, ret, histVars,
                    orchVars, reqVars, callVars >>

\* _save_tracker, line 45: json.dump ends; the text is in the file's buffer
WDumped(t) ==
    /\ wpc[t] = "dumping"
    /\ wpc' = [ wpc EXCEPT ![t] = "dumped" ]
    /\ UNCHANGED << completed_tracks, tracker_file, wbuf, wstale, disk, ret, histVars,
                    orchVars, reqVars, callVars >>

\* what the file holds after a handle flushes buf at offset 0 of a file that
\* holds cur.  The handle truncated the file when it opened it; if no other
\* handle wrote since (stale is false) the file holds the flushed text.
\* Otherwise the text overwrites the start of what the other handle wrote:
\* a longer document replaces a shorter one, a shorter one leaves the tail of
\* the longer behind it (documents with as many entries may differ in length)
Flushed(buf, stale, cur) ==
    IF ~buf.ok THEN { Corrupt }
    ELSE IF ~stale \/ cur = Json(buf.doc) THEN { Json(buf.doc) }
    ELSE IF cur.state # "json" THEN { Json(buf.doc), Corrupt }
    ELSE IF Cardinality(DOMAIN buf.doc) > Cardinality(cur.doc) THEN { Json(buf.doc) }
    ELSE IF Cardinality(DOMAIN buf.doc) < Cardinality(cur.doc) THEN { Corrupt }
    ELSE { Json(buf.doc), Corrupt }

\* _save_tracker, leaving the with block: the buffer is flushed, the file closed
WClose(t) ==
    /\ wpc[t] = "dumped"
    /\ wpc' = [ wpc EXCEPT ![t] = "idle" ]
    /\ tracker_file' \in Flushed(wbuf[t], wstale[t], tracker_file)
    /\ wstale' = [ u \in Threads |->
                     IF u # t /\ wpc[u] \in { "opened", "dumping", "dumped" }
                     THEN TRUE ELSE wstale[u] ]
    /\ UNCHANGED << completed_tracks, wbuf, disk, ret, histVars, orchVars, reqVars, callVars >>

InitWriters ==
    /\ IdleOrchestrator /\ IdleRequests /\ IdleHistory /\ IdleCalls
    /\ wpc = [ t \in Threads |-> "idle" ]
    /\ wbuf = [ t \in Threads |-> Buffer(EmptyDict) ]
    /\ wstale = [ t \in Threads |-> FALSE ]
    /\ disk = WritersDisk
    /\ tracker_file = Absent
    /\ completed_tracks = LoadTracker(tracker_file)
    /\ ret = NoCall

NextWriters ==
    \/ \E t \in Threads, track \in ReqTracks : WMark(t, track)
    \/ \E t \in Threads, track \in ReqTracks : WRemove(t, track)
    \/ \E t \in Threads : WOpen(t)
    \/ \E t \in Threads : WDump(t)
    \/ \E t \in Threads : WDumped(t)
    \/ \E t \in Threads : WClose(t)

SpecWriters == InitWriters /\ [][NextWriters]_vars

-----------------------------------------------------------------------------
(* Several DownloadTracker objects on one output directory (two runs of    *)
(* the program): each has its own completed_tracks, all write one file.    *)

\* a plausible slip: the document on disk is merged into what is written
DumpedMerged(tracks, f) ==
    Buffer([ k \in DOMAIN LoadTracker(f) \cup DOMAIN tracks |->
               IF k \in DOMAIN tracks THEN tracks[k] ELSE LoadTracker(f)[k] ])

\* _save_tracker, line 45: json.dump(self.completed_tracks, f) serialises the
\* object's own dictionary; the file's former content plays no part
Dumped(tracks, f) == Buffer(tracks)

\* the objects' dictionaries, the object that closed the file last, and
\* whether no other handle wrote between its open and its close
Memory(tracks, last, clean) == [ tracks |-> tracks, last |-> last, clean |-> clean ]

\* mark_downloaded, lines 94-103, by object i
IMark(i, track) ==
    /\ wpc[i] = "idle"
    /\ nops < MaxOps
    /\ nops' = nops + 1
    /\ Exists(disk, RecordedFile(track))
    /\ mem' = [ mem EXCEPT !.tracks[i] = MarkTracks(@, disk, track, RecordedFile(track)) ]
    /\ wpc' = [ wpc EXCEPT ![i] = "save" ]
    /\ UNCHANGED << completed_tracks, tracker_file, wbuf, wstale, disk, ret, marked,
                    markedKept, idLog, prev, orchVars, reqVars, finder, checked, dest, dl >>

\* remove_track, lines 115-118, by object i, for a track it holds
IRemove(i, track) ==
    /\ wpc[i] = "idle"
    /\ nops < MaxOps
    /\ nops' = nops + 1
    /\ GetTrackId(track) \in DOMAIN mem.tracks[i]
    /\ mem' = [ mem EXCEPT !.tracks[i] = RemoveTracks(@, track) ]
    /\ wpc' = [ wpc EXCEPT ![i] = "save" ]
    /\ UNCHANGED << completed_tracks, tracker_file, wbuf, wstale, disk, ret, marked,
                    markedKept, idLog, prev, orchVars, reqVars, finder, checked, dest, dl >>

\* _save_tracker, lines 44-45: open(..., 'w') truncates the file and
\* json.dump fills the handle's buffer
IOpen(i) ==
    /\ wpc[i] = "save"
    /\ wpc' = [ wpc EXCEPT ![i] = "dumped" ]
    /\ wbuf' = [ wbuf EXCEPT ![i] = Dumped(mem.tracks[i], tracker_file) ]
    /\ tracker_file' = Corrupt
    /\ wstale' = [ wstale EXCEPT ![i] = FALSE ]
    /\ UNCHANGED << completed_tracks, disk, ret, histVars, orchVars, reqVars, callVars >>

\* _save_tracker, leaving the with block: the buffer is flushed, the file closed
IClose(i) ==
    /\ wpc[i] = "dumped"
    /\ wpc' = [ wpc EXCEPT ![i] = "idle" ]
    /\ tracker_file' \in Flushed(wbuf[i], wstale[i], tracker_file)
    /\ wstale' = [ u \in Threads |->
                     IF u # i /\ wpc[u] = "dumped" THEN TRUE ELSE wstale[u] ]
    /\ mem' = [ mem EXCEPT !.last = i, !.clean = ~wstale[i] ]
    /\ UNCHANGED << completed_tracks, wbuf, disk, ret, histVars, orchVars, reqVars,
                    finder, checked, dest, dl >>

\* the documents the directory may hold when the objects are created
StartDocuments ==
    { Absent, Json(MarkTracks(EmptyDict, WritersDisk, TrackB, RecordedFile(TrackB))) }

InitInstances ==
    /\ IdleOrchestrator /\ IdleRequests /\ IdleHistory
    /\ finder = [ pc |-> "idle" ]
    /\ checked = [ op |-> "none" ]
    /\ dest = [ op |-> "none" ]
    /\ dl = [ pc |-> "idle" ]
    /\ wpc = [ i \in Threads |-> "idle" ]
    /\ wbuf = [ i \in Threads |-> Buffer(EmptyDict) ]
    /\ wstale = [ i \in Threads |-> FALSE ]
    /\ disk = WritersDisk
    /\ tracker_file \in StartDocuments
    /\ completed_tracks = EmptyDict
    /\ mem = Memory([ i \in Threads |-> LoadTracker(tracker_file) ], 0, TRUE)
    /\ ret = NoCall

NextInstances ==
    \/ \E i \in Threads, track \in Tracks : IMark(i, track)
    \/ \E i \in Threads, track \in Tracks : IRemove(i, track)
    \/ \E i \in Threads : IOpen(i)
    \/ \E i \in Threads : IClose(i)

SpecInstances == InitInstances /\ [][NextInstances]_vars

-----------------------------------------------------------------------------
(* One DownloadTracker whose process may die while _save_tracker runs.     *)
(* The write is in steps: the mutation of the dictionary, open(..., 'w')   *)
(* with json.dump into the handle's buffer, and the flush at close.        *)

\* the record of a process that died: the step it was at and the dictionary
\* it held
Died(at, position, tracks) ==
    [ op |-> "crash", at |-> at, position |-> position, tracks |-> tracks ]

\* mark_downloaded, lines 94-103: the entry is set; _save_tracker is next
MarkBegin(track) ==
    /\ wpc[1] = "idle"
    /\ nops < MaxOps
    /\ nops' = nops + 1
    /\ Exists(disk, RecordedFile(track))
    /\ completed_tracks' = MarkTracks(completed_tracks, disk, track, RecordedFile(track))
    /\ prev' = Before(completed_tracks, tracker_file, "none")
    /\ ret' = Call("mark_downloaded", nops', track, RecordedFile(track), "saving")
    /\ wpc' = [ wpc EXCEPT ![1] = "save" ]
    /\ UNCHANGED << tracker_file, wbuf, wstale, disk, marked, markedKept, idLog,
                    orchVars, reqVars, callVars >>

\* remove_track, lines 115-118, for a track the ledger holds
RemoveBegin(track) ==
    /\ wpc[1] = "idle"
    /\ nops < MaxOps
    /\ nops' = nops + 1
    /\ GetTrackId(track) \in DOMAIN completed_tracks
    /\ completed_tracks' = RemoveTracks(completed_tracks, track)
    /\ prev' = Before(completed_tracks, tracker_file, "none")
    /\ ret' = Call("remove_track", nops', track, None, "saving")
    /\ wpc' = [ wpc EXCEPT ![1] = "save" ]
    /\ UNCHANGED << tracker_file, wbuf, wstale, disk, marked, markedKept, idLog,
                    orchVars, reqVars, callVars >>

\* _save_tracker, line 44: open(self.tracker_file, 'w') truncates the file
Opened(f) == Corrupt

\* _save_tracker, lines 44-45
SaveOpen ==
    /\ wpc[1] = "save"
    /\ wpc' = [ wpc EXCEPT ![1] = "dumped" ]
    /\ wbuf' = [ wbuf EXCEPT ![1] = Dumped(completed_tracks, tracker_file) ]
    /\ tracker_file' = Opened(tracker_file)
    /\ UNCHANGED << completed_tracks, wstale, disk, ret, histVars, orchVars, reqVars,
                    callVars >>

\* _save_tracker, leaving the with block: the buffer is flushed, the file closed
SaveClose ==
    /\ wpc[1] = "dumped"
    /\ wpc' = [ wpc EXCEPT ![1] = "idle" ]
    /\ tracker_file' = Json(wbuf[1].doc)
    /\ ret' = [ ret EXCEPT !.value = "ok" ]
    /\ UNCHANGED << completed_tracks, wbuf, wstale, disk, histVars, orchVars, reqVars,
                    callVars >>

\* the process dies while a write is under way: what the handle buffered is
\* lost, the file stays as it is, and a new process constructs
\* DownloadTracker(output_dir), lines 18-27
Crash ==
    /\ wpc[1] \in { "save", "dumped" }
    /\ wpc' = [ wpc EXCEPT ![1] = "idle" ]
    /\ wbuf' = [ wbuf EXCEPT ![1] = Buffer(EmptyDict) ]
    /\ completed_tracks' = LoadTracker(tracker_file)
    /\ ret' = Died(nops, wpc[1], completed_tracks)
    /\ UNCHANGED << tracker_file, wstale, disk, histVars, orchVars, reqVars, callVars >>

InitCrash ==
    /\ IdleOrchestrator /\ IdleRequests /\ IdleHistory /\ IdleCalls
    /\ wpc = [ i \in { 1 } |-> "idle" ]
    /\ wbuf = [ i \in { 1 } |-> Buffer(EmptyDict) ]
    /\ wstale = [ i \in { 1 } |-> FALSE ]
    /\ disk = WritersDisk
    /\ tracker_file \in StartDocuments
    /\ completed_tracks = LoadTracker(tracker_file)
    /\ ret = NoCall

NextCrash ==
    \/ \E track \in Tracks : MarkBegin(track)
    \/ \E track \in Tracks : RemoveBegin(track)
    \/ SaveOpen
    \/ SaveClose
    \/ Crash

SpecCrash == InitCrash /\ [][NextCrash]_vars

-----------------------------------------------------------------------------
(* The matchers: InternetArchiveClient._find_best_match and                *)
(* JamendoClient._find_best_match                                          *)

\* candidates in the list given to one _find_best_match call
MaxResults == 2

UpperCase == << "A", "B", "C", "D", "E", "F", "G", "H", "I", "J", "K", "L", "M",
                "N", "O", "P", "Q", "R", "S", "T", "U", "V", "W", "X", "Y", "Z" >>
LowerCase == << "a", "b", "c", "d", "e", "f", "g", "h", "i", "j", "k", "l", "m",
                "n", "o", "p", "q", "r", "s", "t", "u", "v", "w", "x", "y", "z" >>

\* str.lower
Lower(s) ==
    [ i \in 1..Len(s) |->
        IF \E n \in 1..26 : UpperCase[n] = s[i]
        THEN LowerCase[CHOOSE n \in 1..26 : UpperCase[n] = s[i]]
        ELSE s[i] ]

\* the operator `in` on strings: x is a substring of y ('' is in every string)
In(x, y) == \E i \in 0..(Len(y) - Len(x)) : SubSeq(y, i + 1, i + Len(x)) = x

\* an item of the Internet Archive search: a key that is missing reads as
\* the default of item.get, '' or []; `format` is a list or not
Item(title, creator, is_list, format) ==
    [ title |-> title, creator |-> creator,
      format |-> [ is_list |-> is_list, items |-> format ] ]

\* a result of the Jamendo search; duration in seconds, 0 when missing
Result(artist_name, name, duration) ==
    [ artist_name |-> artist_name, name |-> name, duration |-> duration ]

Flac == << "F", "l", "a", "c" >>

\* a plausible slip: the strings are compared without lower()
IAScoreCaseSensitive(track, item) ==
    ( IF In(track.artist, item.creator) \/ In(track.artist, item.title) THEN 50 ELSE 0 )
    + ( IF In(track.name, item.title) THEN 50 ELSE 0 )
    + ( IF item.format.is_list /\ Flac \in Range(item.format.items) THEN 20 ELSE 0 )

\* InternetArchiveClient._find_best_match, lines 103-119: the score of an item
IAScore(track, item) ==
    LET artist == Lower(track.artist)
        title == Lower(track.name)
        item_title == Lower(item.title)
        item_creator == Lower(item.creator)
    IN  ( IF In(artist, item_creator) \/ In(artist, item_title) THEN 50 ELSE 0 )
        + ( IF In(title, item_title) THEN 50 ELSE 0 )
        + ( IF item.format.is_list /\ Flac \in Range(item.format.items) THEN 20 ELSE 0 )

\* abs(spotify_duration - jamendo_duration), in milliseconds
DurationDiff(track, jamendo_result) ==
    IF track.duration_ms >= 1000 * jamendo_result.duration
    THEN track.duration_ms - 1000 * jamendo_result.duration
    ELSE 1000 * jamendo_result.duration - track.duration_ms

\* a plausible slip: a partial match of the artist or the title adds 20
JamendoScoreWeakPartial(track, jamendo_result) ==
    LET artist == Lower(track.artist)
        title == Lower(track.name)
        result_artist == Lower(jamendo_result.artist_name)
        result_title == Lower(jamendo_result.name)
    IN  ( IF artist = result_artist THEN 50
          ELSE IF In(artist, result_artist) \/ In(result_artist, artist) THEN 20 ELSE 0 )
        + ( IF title = result_title THEN 50
            ELSE IF In(title, result_title) \/ In(result_title, title) THEN 20 ELSE 0 )
        + ( IF DurationDiff(track, jamendo_result) <= 10000 THEN 20 ELSE 0 )

\* a plausible slip: the comparison of the duration test is inverted
JamendoScoreFarDuration(track, jamendo_result) ==
    LET artist == Lower(track.artist)
        title == Lower(track.name)
        result_artist == Lower(jamendo_result.artist_name)
        result_title == Lower(jamendo_result.name)
    IN  ( IF artist = result_artist THEN 50
          ELSE IF In(artist, result_artist) \/ In(result_artist, artist) THEN 30 ELSE 0 )
        + ( IF title = result_title THEN 50
            ELSE IF In(title, result_title) \/ In(result_title, title) THEN 30 ELSE 0 )
        + ( IF DurationDiff(track, jamendo_result) >= 10000 THEN 20 ELSE 0 )

\* JamendoClient._find_best_match, lines 101-125: the score of a result
\* (the track dictionaries of the model always hold 'duration_ms')
JamendoScore(track, jamendo_result) ==
    LET artist == Lower(track.artist)
        title == Lower(track.name)
        result_artist == Lower(jamendo_result.artist_name)
        result_title == Lower(jamendo_result.name)
    IN  ( IF artist = result_artist THEN 50
          ELSE IF In(artist, result_artist) \/ In(result_artist, artist) THEN 30 ELSE 0 )
        + ( IF title = result_title THEN 50
            ELSE IF In(title, result_title) \/ In(result_title, title) THEN 30 ELSE 0 )
        + ( IF DurationDiff(track, jamendo_result) <= 10000 THEN 20 ELSE 0 )

Score(provider, track, candidate) ==
    IF provider = "internetarchive" THEN IAScore(track, candidate)
    ELSE JamendoScore(track, candidate)

\* a plausible slip: the threshold is exclusive
AcceptedAbove(best_score) == best_score > 60

\* `if best_score >= 60`
Accepted(best_score) == best_score >= 60

\* the frame of a call: best_match is the position of the candidate in the
\* list, 0 for None; scores keeps the score computed for each candidate
Frame(provider, track, results) ==
    [ pc |-> "loop", provider |-> provider, track |-> track, results |-> results,
      i |-> 1, best_score |-> 0, best_match |-> 0, scores |-> << >>, out |-> 0 ]

Str_Artist == << "A", "r", "t", "i", "s", "t" >>
Str_Song == << "S", "o", "n", "g" >>
Str_Album == << "A", "l", "b", "u", "m" >>

\* the request of the scenarios
ScenarioTrack == Track(Str_Artist, Str_Song, Str_Album, 1, 200000)
\* a request whose artist name is part of other artists' names
ShortTrack == Track(<< "A", "r", "t" >>, Str_Song, Str_Album, 1, 190000)

MatchTracks == { ScenarioTrack, ShortTrack }

Str_the_artist == << "t", "h", "e", " ", "a", "r", "t", "i", "s", "t" >>
Str_SONG_live == << "S", "O", "N", "G", " ", "l", "i", "v", "e" >>
Str_Other == << "O", "t", "h", "e", "r" >>
Mp3List == << << "V", "B", "R", " ", "M", "P", "3" >> >>
FlacList == << << "V", "B", "R", " ", "M", "P", "3" >>, Flac >>

IAItems ==
    { Item(Str_Song, Str_the_artist, TRUE, Mp3List),
      Item(Str_SONG_live, << >>, TRUE, << >>),
      Item(Str_the_artist, << >>, TRUE, FlacList),
      Item(Str_Song, Str_Other, TRUE, Mp3List),
      Item(Str_Other, Str_Other, FALSE, << Flac >>),
      Item(Str_SONG_live, Str_Artist, TRUE, FlacList) }

JamendoResults ==
    { Result(Str_Artist, Str_Song, 205),
      Result(Str_Artist, Str_Song, 215),
      Result(Str_the_artist, Str_SONG_live, 0),
      Result(<< "A", "r", "t" >>, Str_Other, 195),
      Result(Str_Other, Str_Song, 0),
      Result(Str_the_artist, Str_Song, 210),
      \* a result without artist_name and name: result.get(..., '') gives ''
      Result(<< >>, << >>, 0) }

Candidates(provider) ==
    IF provider = "internetarchive" THEN IAItems ELSE JamendoResults

\* the lists of at most n candidates
ResultLists(provider, n) ==
    UNION { [ 1..k -> Candidates(provider) ] : k \in 0..n }

\* a plausible slip: a candidate that equals the best score replaces it
BetterOrEqual(score, best_score) == score >= best_score

\* if score > best_score: the comparison that replaces the best candidate
Better(score, best_score) == score > best_score

\* one round of `for item in results`: the score, and the strict comparison
\* with the best score so far
FindBestMatchLoop ==
    /\ finder.pc = "loop"
    /\ finder.i <= Len(finder.results)
    /\ LET score == Score(finder.provider, finder.track, finder.results[finder.i])
       IN  finder' = [ finder EXCEPT
                         !.scores = Append(@, score),
                         !.best_score = IF Better(score, @) THEN score ELSE @,
                         !.best_match = IF Better(score, finder.best_score)
                                        THEN finder.i ELSE @,
                         !.i = @ + 1 ]
    /\ UNCHANGED << orchVars, reqVars, writerVars, histVars, completed_tracks,
                    tracker_file, ret, disk, checked, dest, dl, mem >>

\* after the loop: best_match if the best score is accepted, None otherwise
FindBestMatchReturn ==
    /\ finder.pc = "loop"
    /\ finder.i > Len(finder.results)
    /\ finder' = [ finder EXCEPT
                     !.pc = "done",
                     !.out = IF Accepted(finder.best_score) THEN finder.best_match ELSE 0 ]
    /\ UNCHANGED << orchVars, reqVars, writerVars, histVars, completed_tracks,
                    tracker_file, ret, disk, checked, dest, dl, mem >>

InitMatcher ==
    /\ IdleOrchestrator /\ IdleRequests /\ IdleWriters /\ IdleHistory
    /\ disk = EmptyDict
    /\ tracker_file = Absent
    /\ completed_tracks = EmptyDict
    /\ ret = NoCall
    /\ checked = [ op |-> "none" ]
    /\ dest = [ op |-> "none" ]
    /\ dl = [ pc |-> "idle" ]
    /\ mem = [ last |-> 0 ]
    /\ \E provider \in { "internetarchive", "jamendo" }, track \in MatchTracks :
         \E results \in ResultLists(provider, MaxResults) :
            finder = Frame(provider, track, results)

NextMatcher == FindBestMatchLoop \/ FindBestMatchReturn

SpecMatcher == InitMatcher /\ [][NextMatcher]_vars

-----------------------------------------------------------------------------
(* The validator: calls of Downloader._is_file_complete on a file          *)

\* durations mutagen reads (ms): ratios 0.849, 0.85, 1, 1.15 and 1.151 of
\* 200 s, half of it, and the three ways of having no duration
CheckedLengths == { 169800, 170000, 200000, 230000, 230200, 100000, 0, -1, -2 }
CheckedSizes == { 400000, 500000, 500001, 600000, 699999, 700000, 5000000 }
CheckedFiles == { FileOf(sz, len) : sz \in CheckedSizes, len \in CheckedLengths }

\* a request without a duration
TrackZero == Track(<<"a">>, <<"s">>, <<"x">>, 1, 0)
\* a request of two minutes: 0.7 times its minimum size is 700,000 bytes
TrackTwoMinutes == Track(<<"a">>, <<"s">>, <<"x">>, 1, 120000)
CheckedTracks == { TrackA, TrackA2, TrackZero, TrackTwoMinutes }

\* the path of the file that is checked
CheckedPath == GetOutputPath(TrackA)

\* _is_file_complete(file_path, track) is called for a file that exists
CallIsFileComplete(file_path, track) ==
    /\ Exists(disk, file_path)
    /\ checked' = [ op |-> "is_file_complete", track |-> track,
                    file |-> disk[file_path],
                    value |-> IsFileComplete(disk, file_path, track) ]
    /\ UNCHANGED << orchVars, reqVars, writerVars, histVars, completed_tracks,
                    tracker_file, ret, disk, finder, dest, dl, mem >>

\* the file at the path is written anew, by a download or another program
RewriteFile(f) ==
    /\ disk[CheckedPath] # f
    /\ disk' = DictSet(disk, CheckedPath, f)
    /\ UNCHANGED << orchVars, reqVars, writerVars, histVars, completed_tracks,
                    tracker_file, ret, callVars >>

InitValidator ==
    /\ IdleOrchestrator /\ IdleRequests /\ IdleWriters /\ IdleHistory
    /\ tracker_file = Absent
    /\ completed_tracks = EmptyDict
    /\ ret = NoCall
    /\ finder = [ pc |-> "idle" ]
    /\ checked = [ op |-> "none" ]
    /\ dest = [ op |-> "none" ]
    /\ dl = [ pc |-> "idle" ]
    /\ mem = [ last |-> 0 ]
    /\ \E f \in CheckedFiles : disk = DictSet(EmptyDict, CheckedPath, f)

NextValidator ==
    \/ \E track \in CheckedTracks : CallIsFileComplete(CheckedPath, track)
    \/ \E f \in CheckedFiles : RewriteFile(f)

SpecValidator == InitValidator /\ [][NextValidator]_vars

-----------------------------------------------------------------------------
(* Downloader.download, step by step *)

\* no file at the path
NoFile == << >>

\* a plausible slip: an incomplete file is reported but left in place
ExistingCheckKeep(d, output_path, track) ==
    IF skip_existing /\ Exists(d, output_path)
    THEN IF IsFileComplete(d, output_path, track)
         THEN [ disk |-> d, ret |-> TRUE, out |-> output_path ]
         ELSE [ disk |-> d, ret |-> FALSE, out |-> None ]
    ELSE [ disk |-> d, ret |-> FALSE, out |-> None ]

\* download, lines 46-58: an existing complete file is returned, an existing
\* incomplete one is unlinked
ExistingCheck(d, output_path, track) ==
    IF skip_existing /\ Exists(d, output_path)
    THEN IF IsFileComplete(d, output_path, track)
         THEN [ disk |-> d, ret |-> TRUE, out |-> output_path ]
         ELSE [ disk |-> DictDel(d, output_path), ret |-> FALSE, out |-> None ]
    ELSE [ disk |-> d, ret |-> FALSE, out |-> None ]

\* the frame of a call: the file found at output_path when the call began,
\* the yt-dlp runs started, whether a file was at output_path when yt-dlp
\* started, the value returned, and whether the call repeats a call that
\* fetched the same track and whose file is still complete at the path it
\* returned
DlFrame(position, track, found, started, stale, out, repeated) ==
    [ pc |-> position, track |-> track, found |-> found, started |-> started,
      stale |-> stale, out |-> out, repeated |-> repeated ]

\* the call before this one fetched the track, returned the final path, and
\* the file at that path is complete
FetchedBefore(track) ==
    IF dl.pc = "done"
    THEN /\ dl.track = track
         /\ dl.started = 1
         /\ dl.out = FinalPath(track)
         /\ Exists(disk, FinalPath(track))
         /\ IsFileComplete(disk, FinalPath(track), track)
    ELSE FALSE

DlTracks == { TrackA, TrackB }

\* download(youtube_url, track, ...) is called, line 45
DownloadCall(track) ==
    /\ dl.pc \in { "idle", "done" }
    /\ dl' = DlFrame("check", track,
                     IF Exists(disk, GetOutputPath(track))
                     THEN disk[GetOutputPath(track)] ELSE NoFile,
                     0, FALSE, None, FetchedBefore(track))
    /\ UNCHANGED << orchVars, reqVars, writerVars, histVars, completed_tracks,
                    tracker_file, ret, disk, finder, checked, dest, mem >>

\* lines 46-58
DownloadCheck ==
    /\ dl.pc = "check"
    /\ LET r == ExistingCheck(disk, GetOutputPath(dl.track), dl.track)
       IN  /\ disk' = r.disk
           /\ dl' = [ dl EXCEPT !.pc = IF r.ret THEN "done" ELSE "ydl", !.out = r.out ]
    /\ UNCHANGED << orchVars, reqVars, writerVars, histVars, completed_tracks,
                    tracker_file, ret, finder, checked, dest, mem >>

\* lines 60-106: yt-dlp runs (how = "ok": it writes f at the final path;
\* "none": it returns without a file; "raise": it raises)
DownloadYdl(how, f) ==
    /\ dl.pc = "ydl"
    /\ LET final_path == FinalPath(dl.track)
           d2 == IF how = "ok" THEN DictSet(disk, final_path, f) ELSE disk
       IN  /\ disk' = d2
           /\ dl' = [ dl EXCEPT !.pc = "done",
                                !.started = @ + 1,
                                !.stale = Exists(disk, GetOutputPath(dl.track)),
                                !.out = IF how # "raise" /\ Exists(d2, final_path)
                                        THEN final_path ELSE None ]
    /\ UNCHANGED << orchVars, reqVars, writerVars, histVars, completed_tracks,
                    tracker_file, ret, finder, checked, dest, mem >>

\* between two calls a file appears at the output path of a track
PutFile(track, f) ==
    /\ dl.pc \in { "idle", "done" }
    /\ IF Exists(disk, GetOutputPath(track)) THEN disk[GetOutputPath(track)] # f ELSE TRUE
    /\ disk' = DictSet(disk, GetOutputPath(track), f)
    /\ UNCHANGED << orchVars, reqVars, writerVars, histVars, completed_tracks,
                    tracker_file, ret, callVars >>

InitDownloader ==
    /\ IdleOrchestrator /\ IdleRequests /\ IdleWriters /\ IdleHistory /\ IdleCalls
    /\ disk = EmptyDict
    /\ tracker_file = Absent
    /\ completed_tracks = EmptyDict
    /\ ret = NoCall

NextDownloader ==
    \/ \E track \in DlTracks : DownloadCall(track)
    \/ DownloadCheck
    \/ \E how \in { "ok", "none", "raise" }, f \in Files : DownloadYdl(how, f)
    \/ \E track \in DlTracks, f \in Files : PutFile(track, f)

SpecDownloader == InitDownloader /\ [][NextDownloader]_vars

-----------------------------------------------------------------------------
(* The destination paths the providers build for a track *)

PathArtists == { <<"a">>, <<"a", "/", "c">>, <<"a", ":", "b">>, <<".", " ", "a">> }
PathNames == { <<"s">>, <<"s", "?">>, <<".", ".">>, <<"s", "*", "t">> }
PathAlbums == { <<"x">>, <<"x", "|", "y">>, <<"<", "x", ">">> }
PathTracks ==
    { Track(ar, nm, al, tn, 200000) :
        ar \in PathArtists, nm \in PathNames, al \in PathAlbums, tn \in { 1, 12 } }

Destination(provider, track, path) ==
    [ op |-> "path", provider |-> provider, track |-> track, path |-> path ]

\* InternetArchiveClient.download_track and JamendoClient.download_track:
\* output_file for the track
ClientDestination(provider, track) ==
    /\ dest' = Destination(provider, track, ClientOutputFile(track))
    /\ UNCHANGED << orchVars, reqVars, writerVars, histVars, completed_tracks,
                    tracker_file, ret, disk, finder, checked, dl, mem >>

\* Downloader.download: the path yt-dlp writes for the track
DownloaderDestination(track) ==
    /\ dest' = Destination("youtube", track, FinalPath(track))
    /\ UNCHANGED << orchVars, reqVars, writerVars, histVars, completed_tracks,
                    tracker_file, ret, disk, finder, checked, dl, mem >>

InitPaths ==
    /\ IdleOrchestrator /\ IdleRequests /\ IdleWriters /\ IdleHistory /\ IdleCalls
    /\ disk = EmptyDict
    /\ tracker_file = Absent
    /\ completed_tracks = EmptyDict
    /\ ret = NoCall

NextPaths ==
    \/ \E provider \in { "internetarchive", "jamendo" }, track \in PathTracks :
          ClientDestination(provider, track)
    \/ \E track \in PathTracks : DownloaderDestination(track)

SpecPaths == InitPaths /\ [][NextPaths]_vars

-----------------------------------------------------------------------------
(* Properties of the orchestrator *)

Workers == DOMAIN pc
Finished(w) == pc[w] \in { "returned", "done" }

\* the providers of the priority list that are in the active set
ActiveIndexes == { i \in 1..Len(source_priority) : source_priority[i] \in sources }
Attempted(w, i) == \E c \in invoked[w] : c[1] = i

\* C1: if the attempt on a provider of the priority list returns a file,
\* download returns that file and no provider further down the list is
\* searched or fetched for the request.
C1_FallbackOrdering ==
    \A w \in Workers : \A f \in fetched[w] :
        /\ Finished(w)
        /\ result[w] = f.path
        /\ \A c \in invoked[w] : c[1] <= f.idx

\* the first of three active providers returned a file
C1_Witness ==
    \E w \in Workers : \E f \in fetched[w] :
        /\ pc[w] = "done"
        /\ Len(source_priority) = 3
        /\ ActiveIndexes = { 1, 2, 3 }
        /\ f.idx = 1
        /\ result[w] = f.path

\* C2: when the ledger holds an entry for the request's identity whose
\* recorded size equals the size of the recorded file on disk, acquire
\* returns the recorded path and no provider is searched or fetched.
C2_CacheHit ==
    \A w \in Workers :
        current[w].hit =>
            /\ invoked[w] = {}
            /\ pc[w] = "done"
            /\ returned[w].status = "Succeeded"
            /\ returned[w].path = current[w].file

\* a request found its 5,000,000-byte file recorded while providers are active
C2_Witness ==
    \E w \in Workers :
        /\ current[w].hit
        /\ Exists(disk, current[w].file)
        /\ disk[current[w].file].size = 5000000
        /\ ActiveIndexes # {}
        /\ returned[w].path = current[w].file

\* C3 as stated: a fetched file that the validator rejects is deleted, is not
\* returned as the request's success, and the next provider is attempted.
C3_Claimed ==
    \A w \in Workers : \A f \in fetched[w] :
        ~FileComplete(f.file, req[w]) =>
            /\ ~Exists(disk, f.path)
            /\ result[w] # f.path
            /\ ( Finished(w) =>
                   \A i \in ActiveIndexes : i > f.idx =>
                       \E j \in ActiveIndexes : j > f.idx /\ Attempted(w, j) )

\* C4 as stated: a request that succeeds through download has a file the
\* validator accepted and a ledger entry with the returned path and its size.
C4_Claimed ==
    \A w \in Workers :
        ( pc[w] = "done" /\ returned[w].status = "Succeeded" /\ ~current[w].hit ) =>
            /\ \A f \in fetched[w] : FileComplete(f.file, req[w])
            /\ GetTrackId(req[w]) \in DOMAIN completed_tracks
            /\ completed_tracks[GetTrackId(req[w])].file = returned[w].path
            /\ Exists(disk, returned[w].path)
            /\ completed_tracks[GetTrackId(req[w])].size = disk[returned[w].path].size

\* C5: an empty result or an exception of an attempt does not end the
\* request: when download returns None every active provider of the
\* priority list was attempted, and the caller sees Exhausted, not an
\* exception.
C5_ErrorAbsorption ==
    \A w \in Workers :
        /\ pc[w] \in { "idle", "download", "search", "fetch", "yt_search", "yt_fetch",
                      "returned", "done" }
        /\ ( Finished(w) /\ result[w] = None /\ ~current[w].hit ) =>
               /\ \A i \in ActiveIndexes : Attempted(w, i)
               /\ returned[w].status \in { "none", "Exhausted" }

\* a request ended Exhausted after an exception on one provider and an
\* attempt on a later one
C5_Witness ==
    \E w \in Workers :
        /\ pc[w] = "done"
        /\ returned[w].status = "Exhausted"
        /\ \E c1 \in invoked[w], c2 \in invoked[w] : c1[5] = "raise" /\ c2[1] > c1[1]

\* the providers that are enabled, have their credentials and initialise
Working(cfg) ==
    { s \in Providers :
        /\ s \notin cfg.failed
        /\ s \notin cfg.disabled
        /\ (s = "deezer" => cfg.deezer = "on") }

\* C6: the active set holds exactly the providers that initialised, in every
\* state of the session, and only providers that are in the priority list
\* and in the active set are invoked.
C6_ActiveSet ==
    /\ sources = Working(config)
    /\ \A w \in Workers : \A c \in invoked[w] :
          c[2] \in sources /\ c[2] \in Range(source_priority)

\* a request skipped a provider that failed to initialise and called a later one
C6_Witness ==
    \E w \in Workers : \E c \in invoked[w] : \E i \in 1..Len(source_priority) :
        /\ pc[w] = "done"
        /\ i < c[1]
        /\ source_priority[i] \in config.failed
        /\ ~Attempted(w, i)

-----------------------------------------------------------------------------
(* Properties of the ledger *)

\* the last operation was the call is_downloaded(ret.track, ret.path)
JustAsked == ret.op = "is_downloaded" /\ ret.at = nops

\* C7: is_downloaded returns true if and only if an entry exists for the
\* track's identity and the observed size of the file equals the entry's
\* recorded size (false without an entry, false when the sizes differ).
C7_IsCurrentIffSizeEqual ==
    JustAsked =>
        ( ret.value <=>
            /\ Exists(disk, ret.path)
            /\ GetTrackId(ret.track) \in DOMAIN completed_tracks
            /\ completed_tracks[GetTrackId(ret.track)].size = disk[ret.path].size )

\* an entry exists, the file exists, the sizes differ and the call said false
C7_Witness ==
    /\ JustAsked
    /\ ret.value = FALSE
    /\ Exists(disk, ret.path)
    /\ GetTrackId(ret.track) \in DOMAIN completed_tracks
    /\ completed_tracks[GetTrackId(ret.track)].size # disk[ret.path].size

\* C8 as stated: once mark_downloaded(R, F) succeeded, F is unchanged and R's
\* identity was not removed, every is_downloaded(R, F) returns true.
C8_Original ==
    ( JustAsked /\ << ret.track, ret.path >> \in marked )
        => ret.value = TRUE

\* C8 amended: the same, provided R's identity was neither removed nor
\* recorded again with a file of another size.
C8_Idempotence ==
    ( JustAsked /\ << ret.track, ret.path >> \in markedKept )
        => ret.value = TRUE

\* is_downloaded(R, F) answered after a later mark for another identity
C8_Witness ==
    /\ JustAsked
    /\ << ret.track, ret.path >> \in markedKept
    /\ ret.value = TRUE
    /\ \E k \in DOMAIN completed_tracks : k # GetTrackId(ret.track)

\* C9: requests with the same (artist, name, album) get the same identity,
\* whatever their other fields, the ledger's contents, the order of the
\* calls and the restarts in between.
C9_IdentityStable ==
    \A e1 \in idLog, e2 \in idLog : e1[1] = e2[1] => e1[2] = e2[2]

\* identities were computed for two requests that differ only in
\* track_number and duration_ms, with a restart in between or not
C9_Witness ==
    /\ << Triple(TrackA), GetTrackId(TrackA) >> \in idLog
    /\ << Triple(TrackA2), GetTrackId(TrackA2) >> \in idLog
    /\ JustAsked
    /\ ret.track = TrackA2
    /\ completed_tracks # EmptyDict

-----------------------------------------------------------------------------
(* Properties of the ledger under concurrent calls *)

AllCallsCompleted == \A t \in Threads : wpc[t] = "idle"

\* C10 as stated: once all concurrent record and remove calls have
\* completed, every identity recorded and not removed afterwards is in the
\* persisted document.
C10_Claimed ==
    AllCallsCompleted =>
        \A id \in DOMAIN completed_tracks :
            /\ id \in DOMAIN LoadTracker(tracker_file)
            /\ LoadTracker(tracker_file)[id] = completed_tracks[id]

-----------------------------------------------------------------------------
(* Properties of the ledger's persistence and of its mutations *)

Mutations == { "mark_downloaded", "remove_track" }

\* the last operation was a tracker call
JustCalled == ret.op # "none" /\ ret.at = nops
\* the last operation was mark_downloaded or remove_track and it changed the
\* ledger, so that _save_tracker ran (prev.how tells how it ended)
JustWrote == JustCalled /\ ret.op \in Mutations /\ prev.how # "none"

\* C11: when _save_tracker fails inside mark_downloaded or remove_track the
\* call still returns normally, self.completed_tracks keeps the mutation and
\* is what is_downloaded and get_stats answer from; and a call whose write
\* succeeds leaves the whole in-memory ledger in the file, the entries whose
\* earlier write failed included.
C11_PersistenceFailureAbsorbed ==
    /\ JustWrote =>
          /\ ret.value = "ok"
          /\ ( ret.op = "mark_downloaded" =>
                 /\ GetTrackId(ret.track) \in DOMAIN completed_tracks
                 /\ completed_tracks[GetTrackId(ret.track)] = Entry(ret.track, ret.path, disk) )
          /\ ( ret.op = "remove_track" => GetTrackId(ret.track) \notin DOMAIN completed_tracks )
          /\ ( prev.how = "ok" =>
                 /\ tracker_file.state = "json"
                 /\ LoadTracker(tracker_file) = completed_tracks )
    /\ ( JustCalled /\ ret.op = "is_downloaded" ) =>
          ret.value = IsDownloaded(completed_tracks, disk, ret.track, ret.path)
    /\ ( JustCalled /\ ret.op = "get_stats" ) => ret.value = GetStats(completed_tracks)

\* a write succeeded after an earlier write had failed: the entry that was
\* only in memory before the call is in the file after it
C11_Witness ==
    /\ JustWrote
    /\ prev.how = "ok"
    /\ \E k \in DOMAIN prev.tracks :
          /\ k \notin DOMAIN LoadTracker(prev.file)
          /\ k # GetTrackId(ret.track)
          /\ k \in DOMAIN LoadTracker(tracker_file)

\* C12: with one writer, after a mark_downloaded or remove_track whose write
\* succeeded the tracker file holds the whole in-memory ledger, and a tracker
\* loaded from that file answers is_downloaded and get_stats as the writing
\* instance does.
C12_WholeDocument ==
    ( JustWrote /\ prev.how = "ok" ) =>
        /\ tracker_file = Json(completed_tracks)
        /\ DOMAIN LoadTracker(tracker_file) = DOMAIN completed_tracks
        /\ \A k \in DOMAIN completed_tracks : LoadTracker(tracker_file)[k] = completed_tracks[k]
        /\ \A t \in Tracks, p \in LedgerPaths :
              IsDownloaded(LoadTracker(tracker_file), disk, t, p)
                  = IsDownloaded(completed_tracks, disk, t, p)
        /\ GetStats(LoadTracker(tracker_file)) = GetStats(completed_tracks)

\* a successful write of a ledger with two entries, one of which a freshly
\* loaded tracker reports as downloaded
C12_Witness ==
    /\ JustWrote
    /\ prev.how = "ok"
    /\ Cardinality(DOMAIN completed_tracks) = 2
    /\ \E t \in Tracks, p \in LedgerPaths :
          IsDownloaded(LoadTracker(tracker_file), disk, t, p)

\* the identity an entry was recorded under, from its own fields
EntryIdentity(e) == md5_hexdigest(e.artist \o <<"|">> \o e.name \o <<"|">> \o e.album)

\* the last operation was a mark_downloaded that returned
JustMarked == JustCalled /\ ret.op = "mark_downloaded" /\ ret.value = "ok"

\* C13: the ledger holds one entry per identity, under that identity; a
\* mark_downloaded sets every field of the identity's entry from the call,
\* leaves the number of entries unchanged when the identity had an entry,
\* and leaves the entries of the other identities as they were.
C13_WholesaleUpsert ==
    /\ \A k \in DOMAIN completed_tracks : EntryIdentity(completed_tracks[k]) = k
    /\ \A m1 \in tracker_file.doc, m2 \in tracker_file.doc : m1[1] = m2[1] => m1 = m2
    /\ JustMarked =>
          LET id == GetTrackId(ret.track)
          IN  /\ DOMAIN completed_tracks = DOMAIN prev.tracks \cup { id }
              /\ completed_tracks[id].artist = ret.track.artist
              /\ completed_tracks[id].name = ret.track.name
              /\ completed_tracks[id].album = ret.track.album
              /\ completed_tracks[id].file = ret.path
              /\ completed_tracks[id].size = disk[ret.path].size
              /\ completed_tracks[id].format = DropFirst(PathSuffix(ret.path))
              /\ ( id \in DOMAIN prev.tracks =>
                     Cardinality(DOMAIN completed_tracks) = Cardinality(DOMAIN prev.tracks) )
              /\ \A k \in DOMAIN prev.tracks \ { id } :
                     completed_tracks[k] = prev.tracks[k]

\* an identity recorded with a flac file is recorded again with an mp3 file
\* of another size while another identity has an entry
C13_Witness ==
    /\ JustMarked
    /\ GetTrackId(ret.track) \in DOMAIN prev.tracks
    /\ prev.tracks[GetTrackId(ret.track)].file # ret.path
    /\ prev.tracks[GetTrackId(ret.track)].size # disk[ret.path].size
    /\ prev.tracks[GetTrackId(ret.track)].format # completed_tracks[GetTrackId(ret.track)].format
    /\ \E k \in DOMAIN prev.tracks : k # GetTrackId(ret.track)

\* C14: an entry of the in-memory ledger stays as it is across every tracker
\* call except remove_track and mark_downloaded on its own identity:
\* is_downloaded (also when the file is missing or its size differs),
\* get_stats, calls on other identities and failed writes do not touch it.
C14_OnlyExplicitEviction ==
    JustCalled =>
        \A k \in DOMAIN prev.tracks :
            \/ ret.op \in Mutations /\ GetTrackId(ret.track) = k
            \/ k \in DOMAIN completed_tracks /\ completed_tracks[k] = prev.tracks[k]

\* is_downloaded found the file of a recorded identity with another size
\* and answered false
C14_Witness ==
    /\ JustAsked
    /\ ret.value = FALSE
    /\ GetTrackId(ret.track) \in DOMAIN prev.tracks
    /\ Exists(disk, ret.path)
    /\ prev.tracks[GetTrackId(ret.track)].size # disk[ret.path].size
    /\ GetTrackId(ret.track) \in DOMAIN completed_tracks

\* the last operation was remove_track
JustRemoved == JustCalled /\ ret.op = "remove_track"

\* what remove_track does to the in-memory ledger
RemovedInMemory ==
    LET id == GetTrackId(ret.track)
    IN  /\ id \notin DOMAIN completed_tracks
        /\ \A p \in LedgerPaths : ~IsDownloaded(completed_tracks, disk, ret.track, p)
        /\ DOMAIN completed_tracks = DOMAIN prev.tracks \ { id }
        /\ \A k \in DOMAIN completed_tracks : completed_tracks[k] = prev.tracks[k]

\* C15 as stated: after remove_track for an identity that has an entry the
\* entry is absent from the in-memory ledger and from the persisted document,
\* is_downloaded is false for the identity and the other entries are
\* unchanged; without an entry neither the ledger nor the document changes.
C15_Original ==
    JustRemoved =>
        IF GetTrackId(ret.track) \in DOMAIN prev.tracks
        THEN /\ RemovedInMemory
             /\ \A m \in tracker_file.doc : m[1] # GetTrackId(ret.track)
        ELSE completed_tracks = prev.tracks /\ tracker_file = prev.file

\* C15 amended: the entry leaves the persisted document when the write
\* succeeds, and the document is then the whole in-memory ledger; when the
\* write fails the file is left as it was or unreadable.
C15_RemoveDeletesAndPersists ==
    JustRemoved =>
        IF GetTrackId(ret.track) \in DOMAIN prev.tracks
        THEN /\ RemovedInMemory
             /\ IF prev.how = "ok"
                THEN /\ tracker_file = Json(completed_tracks)
                     /\ \A m \in tracker_file.doc : m[1] # GetTrackId(ret.track)
                ELSE tracker_file \in { prev.file, Corrupt }
        ELSE completed_tracks = prev.tracks /\ tracker_file = prev.file

\* an identity whose recorded file is current was removed and the write
\* succeeded, while another identity keeps its entry
C15_Witness ==
    /\ JustRemoved
    /\ prev.how = "ok"
    /\ GetTrackId(ret.track) \in DOMAIN prev.tracks
    /\ \E p \in LedgerPaths : IsDownloaded(prev.tracks, disk, ret.track, p)
    /\ completed_tracks # EmptyDict

\* the sum of the values of a dictionary of numbers
RECURSIVE SumOf(_)
SumOf(d) ==
    IF DOMAIN d = {} THEN 0
    ELSE LET k == CHOOSE x \in DOMAIN d : TRUE
         IN  d[k] + SumOf(DictDel(d, k))

\* stats is what get_stats has to return for the ledger `tracks`
StatsAgree(stats, tracks) ==
    /\ stats.total_downloaded = Cardinality(DOMAIN tracks)
    /\ SumOf(stats.formats) = stats.total_downloaded
    /\ DOMAIN stats.formats = { tracks[k].format : k \in DOMAIN tracks }
    /\ \A fmt \in DOMAIN stats.formats :
          stats.formats[fmt] = Cardinality({ k \in DOMAIN tracks : tracks[k].format = fmt })

\* C16: in every state of the ledger get_stats returns the number of
\* entries, and per-format counts that add up to it, each the number of
\* entries recorded with that format.
C16_StatsAgree ==
    /\ StatsAgree(GetStats(completed_tracks), completed_tracks)
    /\ ( JustCalled /\ ret.op = "get_stats" ) => StatsAgree(ret.value, completed_tracks)

\* get_stats counted two entries of one format
C16_Witness ==
    /\ JustCalled
    /\ ret.op = "get_stats"
    /\ ret.value.total_downloaded = 2
    /\ \E fmt \in DOMAIN ret.value.formats : ret.value.formats[fmt] = 2

-----------------------------------------------------------------------------
(* Properties of the matchers *)

MatchReturned == finder.pc = "done"
MaxScore == IF finder.scores = << >> THEN 0
            ELSE CHOOSE m \in Range(finder.scores) : \A x \in Range(finder.scores) : x <= m

\* C17: _find_best_match returns a candidate if and only if the greatest
\* score of the candidates is at least 60, and then a candidate with that
\* score; it returns None when every score is below 60 or the list is empty.
C17_AcceptanceThreshold ==
    MatchReturned =>
        /\ Len(finder.scores) = Len(finder.results)
        /\ \A i \in 1..Len(finder.results) :
              finder.scores[i] = Score(finder.provider, finder.track, finder.results[i])
        /\ ( finder.out # 0 <=> ( finder.results # << >> /\ MaxScore >= 60 ) )
        /\ ( finder.out # 0 =>
               /\ finder.out \in 1..Len(finder.results)
               /\ finder.scores[finder.out] = MaxScore )

\* the best of two candidates scores exactly 60 and is returned
C17_Witness ==
    /\ MatchReturned
    /\ Len(finder.results) = 2
    /\ MaxScore = 60
    /\ finder.out # 0
    /\ finder.scores[finder.out] = 60

\* the strength of the artist and title signals of a candidate: 2 for
\* equality, 1 for containment, 0 for no match (Jamendo); 1 for containment
\* in the creator or the title (Internet Archive)
MatchLevel(x, y) ==
    IF Lower(x) = Lower(y) THEN 2
    ELSE IF In(Lower(x), Lower(y)) \/ In(Lower(y), Lower(x)) THEN 1 ELSE 0
ArtistSignal(provider, track, c) ==
    IF provider = "jamendo" THEN MatchLevel(track.artist, c.artist_name)
    ELSE IF In(Lower(track.artist), Lower(c.creator)) \/ In(Lower(track.artist), Lower(c.title))
         THEN 1 ELSE 0
TitleSignal(provider, track, c) ==
    IF provider = "jamendo" THEN MatchLevel(track.name, c.name)
    ELSE IF In(Lower(track.name), Lower(c.title)) THEN 1 ELSE 0
HasFlac(c) == c.format.is_list /\ Flac \in Range(c.format.items)

\* candidate c2 is at least as strong as c1 in every signal
AtLeastAsStrong(provider, track, c2, c1) ==
    /\ ArtistSignal(provider, track, c2) >= ArtistSignal(provider, track, c1)
    /\ TitleSignal(provider, track, c2) >= TitleSignal(provider, track, c1)
    /\ IF provider = "jamendo"
       THEN DurationDiff(track, c2) <= DurationDiff(track, c1)
       ELSE HasFlac(c1) => HasFlac(c2)

\* C18: a candidate that is at least as strong as another in every signal
\* (artist match, title match, distance of the durations, preferred format)
\* does not score less; in particular not when the durations are 5 s apart
\* instead of 15 s with the same artist and title.
C18_Monotone ==
    MatchReturned =>
        \A i \in 1..Len(finder.results), j \in 1..Len(finder.results) :
            AtLeastAsStrong(finder.provider, finder.track,
                            finder.results[j], finder.results[i])
                => finder.scores[j] >= finder.scores[i]

\* two Jamendo results with the same artist and title, 15 s and 5 s from the
\* expected duration, were scored
C18_Witness ==
    /\ MatchReturned
    /\ finder.provider = "jamendo"
    /\ \E i \in 1..Len(finder.results), j \in 1..Len(finder.results) :
          /\ finder.results[i].artist_name = finder.results[j].artist_name
          /\ finder.results[i].name = finder.results[j].name
          /\ DurationDiff(finder.track, finder.results[i]) = 15000
          /\ DurationDiff(finder.track, finder.results[j]) = 5000
          /\ finder.scores[j] >= finder.scores[i]

\* the call of scenario 1: one Internet Archive item for the scenario's
\* request that contains the artist in its creator or title and the title in
\* its title, and has no Flac in its format list
Scenario1 ==
    /\ MatchReturned
    /\ finder.provider = "internetarchive"
    /\ finder.track = ScenarioTrack
    /\ Len(finder.results) = 1
    /\ ArtistSignal("internetarchive", finder.track, finder.results[1]) = 1
    /\ TitleSignal("internetarchive", finder.track, finder.results[1]) = 1
    /\ ~HasFlac(finder.results[1])

\* C20: in scenario 1 the candidate scores 50 + 50 = 100 and is selected.
C20_Scenario1 ==
    Scenario1 => finder.scores = << 100 >> /\ finder.out = 1

\* scenario 1 with the item 'the artist' / 'Song'
C20_Witness ==
    /\ Scenario1
    /\ Lower(finder.results[1].title) = Lower(finder.track.name)
    /\ finder.results[1].creator # finder.track.artist
    /\ finder.out = 1

-----------------------------------------------------------------------------
(* Properties of the validator *)

\* the last call read a duration from the file, for a request with a duration
CheckedByDuration ==
    /\ checked.op = "is_file_complete"
    /\ checked.file.length > 0
    /\ checked.track.duration_ms > 0

\* C19: when the file's duration is readable the file is valid if and only
\* if 0.85 <= duration / expected duration <= 1.15; the ratios 0.85 and 1.15
\* are valid, 0.849 and 1.151 are not.
C19_InclusiveBounds ==
    CheckedByDuration =>
        LET actual == checked.file.length
            expected == checked.track.duration_ms
        IN  /\ checked.value <=> ( 85 * expected <= 100 * actual /\ 100 * actual <= 115 * expected )
            /\ ( 1000 * actual = 850 * expected => checked.value = TRUE )
            /\ ( 1000 * actual = 1150 * expected => checked.value = TRUE )
            /\ ( 1000 * actual = 849 * expected => checked.value = FALSE )
            /\ ( 1000 * actual = 1151 * expected => checked.value = FALSE )

\* a file of 170 s was checked against 200 s and found valid
C19_Witness ==
    /\ CheckedByDuration
    /\ 1000 * checked.file.length = 850 * checked.track.duration_ms
    /\ checked.value = TRUE

-----------------------------------------------------------------------------
(* Further properties of the matchers *)

\* the call of scenario 2: one Jamendo result that matches the artist and
\* the title as substrings only and is more than 10 s from the duration
Scenario2 ==
    /\ MatchReturned
    /\ finder.provider = "jamendo"
    /\ Len(finder.results) = 1
    /\ ArtistSignal("jamendo", finder.track, finder.results[1]) = 1
    /\ TitleSignal("jamendo", finder.track, finder.results[1]) = 1
    /\ DurationDiff(finder.track, finder.results[1]) > 10000

\* C21: in scenario 2 the candidate scores exactly 60 and is selected.
C21_Scenario2 ==
    Scenario2 => finder.scores = << 60 >> /\ finder.out = 1

\* scenario 2 for the request of the scenarios
C21_Witness ==
    /\ Scenario2
    /\ finder.track = ScenarioTrack
    /\ finder.best_score = 60
    /\ finder.out = 1

-----------------------------------------------------------------------------
(* Properties of the destination paths *)

\* the directories the path template puts under output_dir, the file aside
TemplateDirs(provider) == IF provider = "youtube" THEN 2 ELSE 1

\* the part of a destination path that follows "output_dir/"
Relative(path) == SubSeq(path, Len(output_dir) + 2, Len(path))

\* C22 as stated: the only unsafe characters of a destination path are the
\* separators of the template; every unsafe character of the artist, the
\* album and the title was replaced before the path was built.
C22_Claimed ==
    dest.op = "path" =>
        LET rel == Relative(dest.path)
            unsafe == { i \in 1..Len(rel) : rel[i] \in invalid_chars }
        IN  /\ \A i \in unsafe : rel[i] = "/"
            /\ Cardinality(unsafe) = TemplateDirs(dest.provider)

-----------------------------------------------------------------------------
(* Further properties of the orchestrator *)

\* the request of worker w went through download and succeeded
SucceededByDownload(w) ==
    pc[w] = "done" /\ returned[w].status = "Succeeded" /\ ~current[w].hit

\* C23 as stated: the provider reported for a request that succeeds is the
\* provider whose attempt returned the request's file, also when several
\* requests run on the same MultiSourceDownloader.
C23_Claimed ==
    \A w \in Workers :
        SucceededByDownload(w) => returned[w].provider_id = source_priority[idx[w]]

\* C24: a request that entered download leaves it, with a file (Succeeded)
\* or with None (Exhausted), whatever the priority list; and once download
\* has returned no provider is called for the request any more.
C24_Terminates ==
    /\ ( pc[1] = "download" ) ~> Finished(1)
    /\ [][ ( Finished(1) /\ nreq' = nreq ) =>
              /\ invoked'[1] = invoked[1]
              /\ result'[1] = result[1]
              /\ Finished(1)' ]_vars

\* download returned None after trying two providers, the last of them
\* YouTube in its second round
C24_Witness ==
    /\ pc[1] = "returned"
    /\ result[1] = None
    /\ \E c \in invoked[1] : c[2] = "youtube" /\ c[4] = max_retries - 1
    /\ Cardinality({ c[1] : c \in invoked[1] }) >= 2

IndexOnlyIncreases == [][ nreq' = nreq => idx'[1] >= idx[1] ]_vars

\* a provider call at entry i of the list: every earlier entry naming an
\* active provider was attempted and produced no file
EarlierFailed ==
    \A c \in invoked[1] :
        \A j \in 1..(c[1] - 1) :
            source_priority[j] \in sources =>
                /\ \E e \in invoked[1] : e[1] = j
                /\ \A f \in fetched[1] : f.idx # j

\* C26, as claimed: the index only increases, earlier active providers have
\* failed, and no provider is attempted in two iterations of the loop,
\* whatever the priority list.
C26_Claimed ==
    /\ IndexOnlyIncreases
    /\ [](EarlierFailed)
    /\ [](\A c, e \in invoked[1] : c[2] = e[2] => c[1] = e[1])

\* C26, amended: the index only increases, earlier active entries have
\* failed, and every entry of the list is attempted at most once (each call
\* of an attempt is made once), so a provider is attempted as often as the
\* list names it.
C26_OrderedOncePerEntry ==
    /\ IndexOnlyIncreases
    /\ [](EarlierFailed)
    /\ [](\A c, e \in invoked[1] :
            ( c[1] = e[1] /\ c[3] = e[3] /\ c[4] = e[4] ) => c = e)
    /\ [](\A c \in invoked[1] : c[1] \in 1..Len(source_priority)
                                  /\ c[2] = source_priority[c[1]])

\* the list names internetarchive twice, and both entries were attempted
C26_Witness ==
    /\ source_priority = RepeatedList
    /\ \E c, e \in invoked[1] :
          /\ c[1] = 1 /\ e[1] = 3
          /\ c[2] = "internetarchive" /\ e[2] = "internetarchive"
    /\ \E c \in invoked[1] : c[1] = 2

\* the calls of one kind made on YouTube at entry i of the list
YoutubeCalls(i, call) ==
    { c \in invoked[1] : c[1] = i /\ c[2] = "youtube" /\ c[3] = call }

\* a round of the retry loop that produced no file
RoundFailed(c) ==
    \/ c[3] = "search" /\ c[5] \in { "none", "raise" }
    \/ c[3] = "fetch" /\ c[5] \in { "none", "raise" }

\* C27: one attempt on YouTube makes at most 2 searches and at most 2
\* fetches; the k-th search carries retry_count k-1; a delay of 1 to 3 s was
\* slept before every round but the first; a further round follows a failed
\* one only; after the last failed round the loop of download goes on to the
\* next entry with no file for YouTube.
C27_BoundedRetry ==
    \A i \in 1..Len(source_priority) :
        /\ Cardinality(YoutubeCalls(i, "search")) <= 2
        /\ Cardinality(YoutubeCalls(i, "fetch")) <= 2
        /\ { c[4] : c \in YoutubeCalls(i, "search") }
              = 0..(Cardinality(YoutubeCalls(i, "search")) - 1)
        /\ \A c \in YoutubeCalls(i, "fetch") :
              \E e \in YoutubeCalls(i, "search") : e[4] = c[4] /\ e[5] = "found"
        /\ pc[1] = "yt_fetch" =>
              /\ { sl[1] : sl \in slept[1] } = 1..attempt[1]
              /\ \A sl \in slept[1] : sl[2] \in Delays
        /\ \A c \in invoked[1] :
              ( c[1] = i /\ c[2] = "youtube" /\ c[4] > 0 ) =>
                  \E e \in invoked[1] :
                      e[1] = i /\ e[2] = "youtube" /\ e[4] = c[4] - 1 /\ RoundFailed(e)
        /\ \A c \in YoutubeCalls(i, "search") :
              ( c[4] = max_retries - 1 /\ RoundFailed(c) ) =>
                  /\ idx[1] > i
                  /\ pc[1] \notin { "yt_search", "yt_fetch" }
                  /\ \A f \in fetched[1] : f.idx # i
        /\ \A c \in YoutubeCalls(i, "fetch") :
              ( c[4] = max_retries - 1 /\ pc[1] # "yt_search" ) =>
                  \/ \E f \in fetched[1] : f.idx = i
                  \/ idx[1] > i

\* the second round of the retry loop found a video after a delay of 2 s,
\* the fetch of the first round having failed
C27_Witness ==
    /\ pc[1] = "yt_fetch"
    /\ attempt[1] = 1
    /\ slept[1] = { << 1, 2 >> }
    /\ \E c \in invoked[1] : c[2] = "youtube" /\ c[3] = "fetch" /\ c[4] = 0 /\ c[5] = "none"
    /\ \E c \in invoked[1] : c[2] = "youtube" /\ c[3] = "search" /\ c[4] = 1

\* C28: the candidate _find_best_match returns is the earliest one with the
\* greatest score, and inside the loop the best candidate is replaced only
\* by one with a strictly greater score.
C28_TieBreak ==
    /\ []( ( MatchReturned /\ finder.out # 0 ) =>
              \A j \in 1..Len(finder.results) :
                  finder.scores[j] = MaxScore => finder.out <= j )
    /\ [][ ( finder.pc = "loop" /\ finder'.best_match # finder.best_match ) =>
              /\ finder'.best_score > finder.best_score
              /\ finder'.best_match = finder.i ]_vars

\* two different candidates share the greatest score, and the first one
\* is returned
C28_Witness ==
    /\ MatchReturned
    /\ Len(finder.results) = 2
    /\ finder.results[1] # finder.results[2]
    /\ finder.scores[1] = finder.scores[2]
    /\ finder.scores[1] >= 60
    /\ finder.out = 1

-----------------------------------------------------------------------------
(* Further properties of the validator *)

\* the last call could parse the file and found no duration in it
CheckedBySize ==
    /\ checked.op = "is_file_complete"
    /\ checked.file.length = 0

\* C29: when the file is parsed but has no duration, it is valid if and only
\* if size >= 0.7 * (duration_ms / 60000) * 500000, that is
\* 6 * size >= 35 * duration_ms; the duration of the file plays no part.
C29_SizeFallback ==
    CheckedBySize =>
        /\ checked.value <=> ( 6 * checked.file.size >= 35 * checked.track.duration_ms )
        /\ ( checked.track = TrackTwoMinutes =>
                ( checked.value <=> checked.file.size >= 700000 ) )

\* a file of exactly 700,000 bytes without a duration was checked against a
\* request of two minutes and found valid
C29_Witness ==
    /\ CheckedBySize
    /\ checked.track = TrackTwoMinutes
    /\ checked.file.size = 700000
    /\ checked.value = TRUE

\* the last call could not parse the file: mutagen.File returned None
\* (length -1) or raised (length -2)
CheckedUnparsed ==
    /\ checked.op = "is_file_complete"
    /\ checked.file.length \in { -1, -2 }

\* C30, as claimed: a file that cannot be parsed, because the parser does not
\* recognise its format or because it raises, is valid if and only if its
\* size exceeds 500,000 bytes.
C30_Claimed ==
    CheckedUnparsed => ( checked.value <=> checked.file.size > 500000 )

-----------------------------------------------------------------------------
(* Properties of several ledgers on one directory *)

-----------------------------------------------------------------------------
(* Properties of the files that attempts leave behind *)

\* C32, as claimed: when the loop of download has just advanced past a
\* failed fetch of the first request of a session, no file lies at the
\* destination of that fetch (none was there when the session began).
C32_Claimed ==
    \A c \in invoked[1] :
        ( /\ nreq = 1
          /\ c[3] = "fetch"
          /\ c[2] \in { "internetarchive", "jamendo" }
          /\ c[5] # "ok"
          /\ pc[1] = "download"
          /\ idx[1] = c[1] + 1 ) =>
            ~Exists(disk, ClientOutputFile(req[1]))

-----------------------------------------------------------------------------
(* Properties of what the matchers select *)

\* C33, as claimed: the candidate a matcher returns matches the requested
\* title (its title contains the request's title; for Jamendo it may also
\* equal it or be contained in it).
C33_Claimed ==
    ( MatchReturned /\ finder.out # 0 ) =>
        TitleSignal(finder.provider, finder.track, finder.results[finder.out]) >= 1

\* C34, as claimed: for a request with an artist and a title, the Jamendo
\* matcher does not return a candidate whose artist_name and name are both
\* empty.
C34_Claimed ==
    ( /\ MatchReturned
      /\ finder.provider = "jamendo"
      /\ finder.track.artist # << >>
      /\ finder.track.name # << >>
      /\ finder.out # 0 ) =>
        ~( /\ finder.results[finder.out].artist_name = << >>
           /\ finder.results[finder.out].name = << >> )

-----------------------------------------------------------------------------
(* Repeating a download *)

\* C35, as claimed: a call of download that repeats a call which fetched the
\* same track, with the fetched file still complete at the returned path,
\* returns that path and does not start yt-dlp.
C35_Claimed ==
    ( dl.pc \in { "ydl", "done" } /\ dl.repeated ) =>
        /\ dl.pc = "done"
        /\ dl.started = 0
        /\ dl.out = FinalPath(dl.track)

-----------------------------------------------------------------------------
(* The files of distinct tracks *)

\* C36, as claimed: while a track is acquired, the file the ledger records
\* for any other identity is neither created, overwritten nor deleted (the
\* destination paths of distinct identities are distinct).
C36_Claimed ==
    [][ \A k \in DOMAIN completed_tracks :
          ( pc[1] \notin { "idle", "done" } /\ k # GetTrackId(req[1]) ) =>
              LET file == completed_tracks[k].file
              IN  /\ Exists(disk', file) <=> Exists(disk, file)
                  /\ Exists(disk, file) => disk'[file] = disk[file] ]_vars

-----------------------------------------------------------------------------
(* A process that dies while it writes the ledger *)

\* C37, as claimed: when the process died during a ledger write, the ledger
\* loaded afterwards is the document persisted before the mutation or the
\* document of the mutated dictionary.
C37_Claimed ==
    ret.op = "crash" =>
        completed_tracks \in { LoadTracker(prev.file), ret.tracks }

-----------------------------------------------------------------------------
(* A record that fails *)

\* C38: when mark_downloaded raised because the file does not exist, the
\* dictionary in memory and the tracker file are what they were before the
\* call, an earlier entry for the same identity included.
C38_FailedRecordChangesNothing ==
    ( ret.op = "mark_downloaded" /\ ret.value = "raised" ) =>
        /\ completed_tracks = prev.tracks
        /\ tracker_file = prev.file
        /\ \A k \in DOMAIN prev.tracks :
              k \in DOMAIN completed_tracks /\ completed_tracks[k] = prev.tracks[k]

\* the record failed for an identity that has an entry, in memory and in
\* the tracker file
C38_Witness ==
    /\ ret.op = "mark_downloaded"
    /\ ret.value = "raised"
    /\ GetTrackId(ret.track) \in DOMAIN completed_tracks
    /\ tracker_file = Json(completed_tracks)

====
